---- MODULE Spec2Model ----
(***************************************************************************)
(* The agent loop of cli-ai-agent (cmd/cli-ai-agent/main.go): the REPL of  *)
(* main, Agent.ProcessMessage, Agent.processOneResponse (request, stream   *)
(* decoding, tool dispatch with permission gating) and Agent.askPermission.*)
(*                                                                         *)
(* Text is a sequence of tokens (atomic pieces of a string), so that       *)
(* string concatenation is \o and fmt.Sprintf is a sequence of pieces.     *)
(* One step of the model runs the agent thread from one blocking point     *)
(* (reading the terminal, waiting for the endpoint, reading a stream line, *)
(* running a tool) to the next.                                            *)
(***************************************************************************)
EXTENDS Naturals, Sequences, FiniteSets, TLC

(***************************************************************************)
(* Bounds.  The environment (operator, endpoint, tools) chooses freely for *)
(* its first MaxChoices inputs of a session; after that it follows the     *)
(* runaway script (the endpoint answers every request with one done        *)
(* fragment that invokes read_file, the tool succeeds, the operator denies *)
(* and finally types exit), which drives the loop to its iteration cap.    *)
(***************************************************************************)
MaxChoices == 6

\* a faulty variant: one iteration too many
maxIterationsPlusOne == 10 + 1

\* ProcessMessage: maxIterations := 10
maxIterations == 10

(***************************************************************************)
(* Tools.  main registers seven tools; RequiresPermission of each.         *)
(***************************************************************************)
RegisteredTools ==
  [ read_file      |-> FALSE,
    write_file     |-> TRUE,
    modify_file    |-> TRUE,
    list_directory |-> FALSE,
    list_tree      |-> FALSE,
    run_command    |-> TRUE,
    execute_python |-> TRUE ]

\* tool names the model endpoint may put in an invocation: a tool without
\* permission, a tool with permission, a name that is not registered
InvokedNames == {"read_file", "run_command", "no_such_tool"}

\* this.tools[toolName]: exists
Exists(reg, name) == name \in DOMAIN reg

\* a faulty variant: every tool is gated
RequiresPermissionAlways(reg, name) == TRUE

\* a faulty variant: no tool is gated
RequiresPermissionNever(reg, name) == FALSE

\* tool.RequiresPermission()
RequiresPermission(reg, name) == reg[name]

(***************************************************************************)
(* Messages and stream fragments.                                          *)
(***************************************************************************)
\* var finalMessage Message: Go's zero value
ZeroMessage == [role |-> "", content |-> <<>>, thinking |-> <<>>, tool_calls |-> <<>>]

\* Message{Role: "user", Content: userMessage}
UserTurn(userMessage) ==
  [role |-> "user", content |-> <<userMessage>>, thinking |-> <<>>, tool_calls |-> <<>>]

\* Message{Role: "tool", Content: result}
ToolTurn(result) ==
  [role |-> "tool", content |-> result, thinking |-> <<>>, tool_calls |-> <<>>]

\* a faulty variant: the denial does not name the tool
DeniedTextWithoutName(toolName) == <<"Permission denied">>

\* fmt.Sprintf("Permission denied for %s", toolName)
DeniedText(toolName) == <<"Permission denied for ", toolName>>

\* the error a failing tool returns, and the text a succeeding tool returns
ToolError(toolName) == <<toolName, " failed">>
ToolOutput(toolName) == <<"output of ", toolName>>

\* a faulty variant: the error text is appended without its prefix
ResultTextUnprefixed(toolName, ok) ==
  IF ok THEN ToolOutput(toolName) ELSE ToolError(toolName)

\* result, err := tool.Execute(...); if err != nil { result = fmt.Sprintf("Error: %v", err) }
ResultText(toolName, ok) ==
  IF ok THEN ToolOutput(toolName) ELSE <<"Error: ">> \o ToolError(toolName)

\* one streamed JSON line that parses: OllamaResponse{Message, Done}; an absent
\* field decodes to Go's zero value ("" or an empty list)
Chunk(t, c, r, calls, d) ==
  [thinking |-> t, content |-> c, role |-> r, tool_calls |-> calls, done |-> d]

\* the fragment of the runaway script
PlainChunk == Chunk(<<>>, <<>>, "assistant", <<"read_file">>, TRUE)

\* fragments with done = false
PartialChunks ==
  { Chunk(<<"t">>, <<>>, "assistant", <<>>, FALSE),
    Chunk(<<>>, <<"a">>, "assistant", <<>>, FALSE),
    Chunk(<<"u">>, <<"b">>, "", <<>>, FALSE),
    Chunk(<<>>, <<>>, "assistant", <<"run_command">>, FALSE),
    Chunk(<<>>, <<>>, "assistant", <<>>, FALSE) }

\* fragments with done = true
DoneChunks ==
  { PlainChunk,
    Chunk(<<>>, <<>>, "", <<>>, TRUE),
    Chunk(<<>>, <<"b">>, "assistant", <<>>, TRUE),
    Chunk(<<>>, <<>>, "", <<"read_file">>, TRUE),
    Chunk(<<"t">>, <<"a">>, "assistant", <<"read_file">>, TRUE),
    Chunk(<<>>, <<>>, "assistant", <<"run_command">>, TRUE),
    Chunk(<<>>, <<>>, "assistant", <<"no_such_tool">>, TRUE),
    Chunk(<<>>, <<>>, "assistant", <<"run_command", "run_command">>, TRUE),
    Chunk(<<>>, <<>>, "assistant", <<"run_command", "read_file">>, TRUE),
    Chunk(<<>>, <<>>, "assistant", <<"read_file", "no_such_tool">>, TRUE),
    Chunk(<<>>, <<>>, "assistant", <<"no_such_tool", "read_file">>, TRUE) }

Chunks == PartialChunks \cup DoneChunks

\* a line of the response body: a fragment, an empty line, or a line that
\* json.Unmarshal rejects
EmptyLine == [kind |-> "empty"]
MalformedLine == [kind |-> "malformed"]
ChunkLine(chunk) == [kind |-> "chunk", chunk |-> chunk]
Lines == {EmptyLine, MalformedLine} \cup {ChunkLine(c) : c \in Chunks}

\* a faulty variant: content and thinking are replaced instead of appended
AccumulateReplacing(fm, chunk) ==
  [ thinking   |-> IF chunk.thinking # <<>> THEN chunk.thinking ELSE fm.thinking,
    content    |-> IF chunk.content # <<>> THEN chunk.content ELSE fm.content,
    role       |-> IF chunk.role # "" THEN chunk.role ELSE fm.role,
    tool_calls |-> IF Len(chunk.tool_calls) > 0 THEN chunk.tool_calls
                   ELSE fm.tool_calls ]

\* a faulty variant: a non-empty tool_calls list is appended to the list held
AccumulateAppendingCalls(fm, chunk) ==
  [ thinking   |-> IF chunk.thinking # <<>> THEN fm.thinking \o chunk.thinking
                   ELSE fm.thinking,
    content    |-> IF chunk.content # <<>> THEN fm.content \o chunk.content
                   ELSE fm.content,
    role       |-> IF chunk.role # "" THEN chunk.role ELSE fm.role,
    tool_calls |-> fm.tool_calls \o chunk.tool_calls ]

\* the body of the scanner loop for a fragment that parsed: thinking and
\* content are appended, role and a non-empty tool_calls list overwrite
Accumulate(fm, chunk) ==
  [ thinking   |-> IF chunk.thinking # <<>> THEN fm.thinking \o chunk.thinking
                   ELSE fm.thinking,
    content    |-> IF chunk.content # <<>> THEN fm.content \o chunk.content
                   ELSE fm.content,
    role       |-> IF chunk.role # "" THEN chunk.role ELSE fm.role,
    tool_calls |-> IF Len(chunk.tool_calls) > 0 THEN chunk.tool_calls
                   ELSE fm.tool_calls ]

\* a faulty variant: a line that does not parse ends the scanner loop
ScanStepBreakOnMalformed(fm, line) ==
  IF line.kind = "empty" THEN [fm |-> fm, stop |-> FALSE]
  ELSE IF line.kind = "malformed" THEN [fm |-> fm, stop |-> TRUE]
  ELSE [fm |-> Accumulate(fm, line.chunk), stop |-> line.chunk.done]

\* a faulty variant: the loop does not break on done
ScanStepIgnoringDone(fm, line) ==
  IF line.kind = "empty" THEN [fm |-> fm, stop |-> FALSE]
  ELSE IF line.kind = "malformed" THEN [fm |-> fm, stop |-> FALSE]
  ELSE [fm |-> Accumulate(fm, line.chunk), stop |-> FALSE]

\* one pass of the scanner loop body on line with the accumulator fm: an
\* empty line and a line that json.Unmarshal rejects are skipped (continue), a
\* fragment is accumulated and then ends the loop if it says done (break)
ScanStep(fm, line) ==
  IF line.kind = "empty" THEN [fm |-> fm, stop |-> FALSE]
  ELSE IF line.kind = "malformed" THEN [fm |-> fm, stop |-> FALSE]
  ELSE [fm |-> Accumulate(fm, line.chunk), stop |-> line.chunk.done]

\* a faulty variant: the accumulator takes the place of the last turn
AfterScanOverwritingLast(conv, fm, scanErr) ==
  IF scanErr THEN conv
  ELSE IF conv = <<>> THEN <<fm>>
  ELSE [conv EXCEPT ![Len(conv)] = fm]

\* a faulty variant: the accumulator is appended before scanner.Err() is tested
AfterScanAppendFirst(conv, fm, scanErr) == Append(conv, fm)

\* after the scanner loop: scanner.Err() != nil returns before the append,
\* otherwise this.conversation = append(this.conversation, finalMessage)
AfterScan(conv, fm, scanErr) == IF scanErr THEN conv ELSE Append(conv, fm)

(***************************************************************************)
(* askPermission.  An answer is a sequence of characters.                  *)
(***************************************************************************)
\* strings.ToLower on the characters the operator types here
LowerChar(c) ==
  CASE c = "Y" -> "y" [] c = "E" -> "e" [] c = "S" -> "s"
    [] c = "N" -> "n" [] c = "O" -> "o" [] OTHER -> c
ToLower(s) == [i \in DOMAIN s |-> LowerChar(s[i])]

\* strings.TrimSpace
RECURSIVE TrimLeft(_)
TrimLeft(s) == IF s # <<>> /\ Head(s) = " " THEN TrimLeft(Tail(s)) ELSE s
RECURSIVE TrimRight(_)
TrimRight(s) ==
  IF s # <<>> /\ s[Len(s)] = " " THEN TrimRight(SubSeq(s, 1, Len(s) - 1)) ELSE s
TrimSpace(s) == TrimRight(TrimLeft(s))

\* a faulty variant: the answer is compared as typed
askPermissionAsTyped(answer) ==
  answer = <<"y">> \/ answer = <<"y", "e", "s">>

\* a faulty variant: an empty answer allows, as under a "(Y/n)" prompt
askPermissionEmptyAllows(answer) ==
  LET response == TrimSpace(ToLower(answer))
  IN response = <<>> \/ response = <<"y">> \/ response = <<"y", "e", "s">>

\* response := strings.TrimSpace(strings.ToLower(readInput()))
\* return response == "y" || response == "yes"
askPermission(answer) ==
  LET response == TrimSpace(ToLower(answer))
  IN response = <<"y">> \/ response = <<"y", "e", "s">>

\* what the operator may type at the "Allow? (y/N): " prompt
Answers == { <<"y">>, <<" ", "Y", "e", "s", " ">>, <<"n", "o">>, <<>> }

(***************************************************************************)
(* The request and the decisions of the loop.                              *)
(***************************************************************************)
\* getToolDefinitions: one definition for each entry of the map, in the map's
\* iteration order, which Go leaves unspecified: the number of definitions
\* by tool name
getToolDefinitions(reg) == [name \in DOMAIN reg |-> 1]

\* a faulty variant: the tool-role turns are left out of the request
BuildRequestWithoutToolTurns(conv, reg) ==
  [ messages |-> SelectSeq(conv, LAMBDA m : m.role # "tool"),
    tools    |-> getToolDefinitions(reg) ]

\* OllamaRequest{Messages: this.conversation, Tools: this.getToolDefinitions()},
\* serialised by json.MarshalIndent before it is sent
BuildRequest(conv, reg) ==
  [messages |-> conv, tools |-> getToolDefinitions(reg)]

\* a faulty variant: the loop ends ("break") at the first unregistered name
NextKnownBreak(reg, calls, i) ==
  IF i > Len(calls) THEN i
  ELSE IF Exists(reg, calls[i]) THEN i
  ELSE Len(calls) + 1

\* the range loop over finalMessage.ToolCalls skips ("continue") every
\* invocation whose name is not registered: the next index at or after i
\* whose tool exists, or Len(calls) + 1
RECURSIVE NextKnown(_, _, _)
NextKnown(reg, calls, i) ==
  IF i > Len(calls) THEN i
  ELSE IF Exists(reg, calls[i]) THEN i
  ELSE NextKnown(reg, calls, i + 1)

\* a faulty variant: the loop never asks for another round-trip
ShouldContinueNever(executed, anyPermission) == FALSE

\* faulty variants: one of the two conditions is forgotten
ShouldContinueWithoutExecution(executed, anyPermission) == ~anyPermission
ShouldContinueDespitePermission(executed, anyPermission) == executed > 0

\* shouldContinue = toolsExecuted > 0 && !anyToolRequiredPermission
ShouldContinue(executed, anyPermission) == executed > 0 /\ ~anyPermission

\* a faulty variant: a failed call is retried in the next iteration
ProcessMessageNextRetrying(sc, err, it) ==
  IF err \/ sc
  THEN [again |-> it + 1 < 10, iteration |-> it + 1,
        ret |-> IF err THEN "error" ELSE "nil"]
  ELSE [again |-> FALSE, iteration |-> it, ret |-> "nil"]

\* ProcessMessage's for loop after processOneResponse returned (sc, err) in
\* iteration it: return err; break; or iteration++ and test the bound
ProcessMessageNext(sc, err, it) ==
  IF err THEN [again |-> FALSE, iteration |-> it, ret |-> "error"]
  ELSE IF ~sc THEN [again |-> FALSE, iteration |-> it, ret |-> "nil"]
  ELSE [again |-> it + 1 < maxIterations, iteration |-> it + 1, ret |-> "nil"]

\* a faulty variant: only an execution that succeeded is counted
CountExecutionOnSuccess(executed, ok) == IF ok THEN executed + 1 ELSE executed

\* toolsExecuted++ after the result of Execute, an error included, was appended
CountExecution(executed, ok) == executed + 1

\* a faulty variant: the slice keeps its first turn
ClearConversationKeepingOne(conv) == IF conv = <<>> THEN <<>> ELSE <<conv[1]>>

\* agent.conversation = agent.conversation[:0]
ClearConversation(conv) == SubSeq(conv, 1, 0)

(***************************************************************************)
(* State.                                                                  *)
(***************************************************************************)
VARIABLES
  tools,           \* Agent.tools: name -> RequiresPermission() of the tool
  conversation,    \* Agent.conversation
  pc,              \* where the agent thread blocks: "prompt" (readInput in main),
                   \* "await" (http.DefaultClient.Do), "scan" (scanner.Scan),
                   \* "ask" (readInput in askPermission), "exec" (tool.Execute),
                   \* "exited" (main returned)
  input,           \* main: the line read last
  iteration,       \* ProcessMessage: the loop counter
  ret,             \* what the last ProcessMessage returned: "nil" or "error"
                   \* ("none" while it runs or before the first one)
  request,         \* processOneResponse: the request as serialised
  finalMessage,    \* processOneResponse: the accumulator
  idx,             \* processOneResponse: position of the range loop (1-based)
  toolsExecuted,
  anyToolRequiredPermission,
  shouldContinue,  \* what the last processOneResponse returned
  response,        \* askPermission: the operator's last answer, as typed
  \* history, read by the properties only
  fuel,            \* free choices the environment has left
  modelCalls,      \* requests sent for the current user message
  delivered,       \* lines of the current response body read so far
  events,          \* prompts answered and Execute calls of the current round-trip
  asstAt,          \* index of the turn appended from the current response, or 0
  failed,          \* a model call of the current user message failed
  lastCmd,         \* the last non-empty input: "none", "clear", "message", "exit"
  prevCmd,         \* the non-empty input before it
  results,         \* what the Execute calls of the current round-trip returned
  ended            \* how the scanner loop of the current response ended: "done",
                   \* "eof", "error", or "" while it has not

\* The spinner revision of processOneResponse (src/unnamed/part_002) and its
\* pretty.Spinner: the agent thread and the animation goroutines.
VARIABLES
  agentPc,         \* processOneResponse of the spinner revision: "idle" outside
                   \* it, "await" (http.DefaultClient.Do), "scan" (scanner.Scan),
                   \* "stopLine" (spinner.Stop() in the loop), "line" (the rest
                   \* of the loop body), "stopErr" (spinner.Stop() on a read
                   \* error), "stopDefer" (the deferred spinner.Stop())
  active,          \* Spinner.active of the round-trip's spinner
  sending,         \* the agent thread is blocked in this.done <- true
  spinnerPc,       \* the goroutine of the round-trip's spinner: "none",
                   \* "select", "frame" (default case chosen), "clear" (done
                   \* received, "\r\033[K" not yet printed), "exited"
  frame,           \* the goroutine's i (0-based)
  lingering,       \* goroutines of earlier spinners that have not yet printed
                   \* their "\r\033[K"
  curLine,         \* the line scanner.Text() returned
  \* history, read by the properties only
  rounds,          \* calls of processOneResponse so far
  linesRead,       \* lines read from the current response
  rendered,        \* streamed thinking or content of the round-trip was printed
  late,            \* what goroutines printed after that
  stops,           \* calls of Stop on the round-trip's spinner
  sends,           \* sends on its done channel
  path             \* how the round-trip ended: "", "success", "requestError",
                   \* "readError", "emptyStream"

svars ==
  << agentPc, active, sending, spinnerPc, frame, lingering, curLine,
     rounds, linesRead, rendered, late, stops, sends, path >>

\* The tools map as Go's runtime holds it, and the catalogs built from it.
VARIABLES
  slots,           \* the keys of Agent.tools in the order of their slots: a map
                   \* of at most eight entries keeps them in insertion order
  catalog,         \* what getToolDefinitions returned last
  builds,          \* calls of getToolDefinitions so far
  \* history, read by the properties only
  previous,        \* what getToolDefinitions returned the time before
  registered       \* the tools passed to RegisterTool after startup, in order

rvars == << slots, catalog, builds, previous, registered >>

\* the two revisions of the agent, each run on the same inputs
VARIABLES
  agents,          \* per revision, the state of its agent thread: conversation,
                   \* pc, iteration, calls (finalMessage.ToolCalls), idx,
                   \* toolsExecuted, anyToolRequiredPermission; the numbers of
                   \* inputs, responses, answers and results it has consumed;
                   \* and, as history, modelCalls and log
  userInputs,      \* the lines typed at the "You: " prompt, in order
  modelResponses,  \* what the model calls return, in order
  operatorAnswers, \* the lines typed at the "Allow?" prompts, in order
  toolResults      \* whether the Execute calls succeed, in order

cvars == << agents, userInputs, modelResponses, operatorAnswers, toolResults >>

\* one Spinner called from several threads
VARIABLES
  this,            \* the Spinner: active, and mu as the caller that holds it
                   \* or "free"
  callers,         \* per calling thread: pc is "idle" (in no call),
                   \* "startLock" or "stopLock" (at this.mu.Lock()), "startGo"
                   \* (Start has unlocked and is about to run the go
                   \* statement), "stopSend" (blocked in this.done <- true,
                   \* holding mu); period is the period a Start began
  routines,        \* the animation goroutines in the order of their go
                   \* statements: st is "select", "frame" (default case
                   \* chosen), "clear" (done received, "\r\033[K" not yet
                   \* printed) or "exited"
  \* history, read by the properties only
  periods,         \* periods begun: Start calls that set active
  stopsSent,       \* periods ended: Stop calls that cleared active
  apiCalls         \* Start and Stop calls made so far

avars == << this, callers, routines, periods, stopsSent, apiCalls >>

vars ==
  << tools, conversation, pc, input, iteration, ret, request, finalMessage, idx,
     toolsExecuted, anyToolRequiredPermission, shouldContinue, response,
     fuel, modelCalls, delivered, events, asstAt, failed, lastCmd, prevCmd,
     results, ended >>

\* the order of main's RegisterTool calls
StartupOrder ==
  << "read_file", "write_file", "modify_file", "list_directory", "list_tree",
     "run_command", "execute_python" >>

\* the map after main's RegisterTool calls; no catalog was built
RegistryInit ==
  /\ slots = StartupOrder
  /\ catalog = <<>>
  /\ builds = 0
  /\ previous = <<>>
  /\ registered = <<>>

\* no round-trip of the spinner revision has begun: no spinner, no goroutine
SpinnerInit ==
  /\ agentPc = "idle"
  /\ active = FALSE
  /\ sending = FALSE
  /\ spinnerPc = "none"
  /\ frame = 0
  /\ lingering = 0
  /\ curLine = ""
  /\ rounds = 0
  /\ linesRead = 0
  /\ rendered = FALSE
  /\ late = {}
  /\ stops = 0
  /\ sends = 0
  /\ path = ""

\* the revision of src/cmd/cli-ai-agent/main.go and the one of
\* src/unnamed/part_002
Revisions == {"main", "spinner"}

\* each agent after its RegisterTool calls, waiting at its first "You: "
RevisionsInit ==
  /\ agents = [r \in Revisions |->
                 [conversation |-> <<>>, pc |-> "prompt", iteration |-> 0,
                  calls |-> <<>>, idx |-> 1, toolsExecuted |-> 0,
                  anyToolRequiredPermission |-> FALSE,
                  inputs |-> 0, responses |-> 0, answers |-> 0, results |-> 0,
                  modelCalls |-> 0, log |-> <<>>]]
  /\ userInputs = <<>>
  /\ modelResponses = <<>>
  /\ operatorAnswers = <<>>
  /\ toolResults = <<>>

\* the threads that call Start and Stop
Callers == {"c1", "c2", "c3"}

\* NewSpinner: not active, no goroutine
SpinnerApiInit ==
  /\ this = [active |-> FALSE, mu |-> "free"]
  /\ callers = [c \in Callers |-> [pc |-> "idle", period |-> 0]]
  /\ routines = <<>>
  /\ periods = 0
  /\ stopsSent = 0
  /\ apiCalls = 0

\* the operator's lines at the "You: " prompt
Inputs == {"", "exit", "clear", "hello"}

\* the state when main reaches its loop: NewAgent and seven RegisterTool calls
Init ==
  /\ tools = RegisteredTools
  /\ conversation = <<>>
  /\ pc = "prompt"
  /\ input = ""
  /\ iteration = 0
  /\ ret = "none"
  /\ request = BuildRequest(<<>>, RegisteredTools)
  /\ finalMessage = ZeroMessage
  /\ idx = 1
  /\ toolsExecuted = 0
  /\ anyToolRequiredPermission = FALSE
  /\ shouldContinue = FALSE
  /\ response = <<>>
  /\ fuel = MaxChoices
  /\ modelCalls = 0
  /\ delivered = <<>>
  /\ events = <<>>
  /\ asstAt = 0
  /\ failed = FALSE
  /\ lastCmd = "none"
  /\ prevCmd = "none"
  /\ results = <<>>
  /\ ended = ""
  /\ SpinnerInit
  /\ RegistryInit
  /\ RevisionsInit
  /\ SpinnerApiInit

\* the environment's choice among all, or its scripted one once the fuel is spent
Choices(all, scripted) == IF fuel > 0 THEN all ELSE {scripted}
Burn == fuel' = IF fuel > 0 THEN fuel - 1 ELSE 0

(***************************************************************************)
(* Steps shared by the actions.                                            *)
(***************************************************************************)
\* a faulty variant: a failed round-trip takes the last turn back
ReturnTakingBackOnError(conv, sc, err) ==
  LET nx == ProcessMessageNext(sc, err, iteration)
  IN /\ conversation' = IF err /\ conv # <<>> THEN SubSeq(conv, 1, Len(conv) - 1)
                        ELSE conv
     /\ shouldContinue' = sc
     /\ iteration' = nx.iteration
     /\ IF nx.again
        THEN /\ pc' = "await"
             /\ ret' = "none"
             /\ request' = BuildRequest(conv, tools)
             /\ modelCalls' = modelCalls + 1
        ELSE /\ pc' = "prompt"
             /\ ret' = nx.ret
             /\ UNCHANGED <<request, modelCalls>>

\* processOneResponse returns (sc, err) with the conversation conv;
\* ProcessMessage returns or calls processOneResponse again, which builds its
\* request and blocks in http.DefaultClient.Do
Return(conv, sc, err) ==
  LET nx == ProcessMessageNext(sc, err, iteration)
  IN /\ conversation' = conv
     /\ shouldContinue' = sc
     /\ iteration' = nx.iteration
     /\ IF nx.again
        THEN /\ pc' = "await"
             /\ ret' = "none"
             /\ request' = BuildRequest(conv, tools)
             /\ modelCalls' = modelCalls + 1
        ELSE /\ pc' = "prompt"
             /\ ret' = nx.ret
             /\ UNCHANGED <<request, modelCalls>>

\* a faulty variant: a tool that requires permission is started before the
\* operator has answered
ToolLoopExecutingBeforeAnswer(conv, calls, i, executed, anyPermission, ev) ==
  LET j == NextKnown(tools, calls, i)
  IN /\ idx' = j
     /\ toolsExecuted' = executed
     /\ IF j > Len(calls)
        THEN /\ anyToolRequiredPermission' = anyPermission
             /\ events' = ev
             /\ Return(conv, ShouldContinue(executed, anyPermission), FALSE)
        ELSE /\ conversation' = conv
             /\ UNCHANGED <<shouldContinue, iteration, ret, request, modelCalls>>
             /\ events' = Append(ev, <<"exec", j, calls[j]>>)
             /\ IF RequiresPermission(tools, calls[j])
                THEN /\ anyToolRequiredPermission' = TRUE
                     /\ pc' = "ask"
                ELSE /\ anyToolRequiredPermission' = anyPermission
                     /\ pc' = "exec"

\* a faulty variant: the range loop ends at the first denial
ToolLoopEndingAtDenial(conv, calls, i, executed, anyPermission, ev) ==
  LET denied == ev # <<>> /\ ev[Len(ev)][1] = "ask"
      j == IF denied THEN Len(calls) + 1 ELSE NextKnown(tools, calls, i)
  IN /\ idx' = j
     /\ toolsExecuted' = executed
     /\ IF j > Len(calls)
        THEN /\ anyToolRequiredPermission' = anyPermission
             /\ events' = ev
             /\ Return(conv, ShouldContinue(executed, anyPermission), FALSE)
        ELSE /\ conversation' = conv
             /\ UNCHANGED <<shouldContinue, iteration, ret, request, modelCalls>>
             /\ IF RequiresPermission(tools, calls[j])
                THEN /\ anyToolRequiredPermission' = TRUE
                     /\ events' = ev
                     /\ pc' = "ask"
                ELSE /\ anyToolRequiredPermission' = anyPermission
                     /\ events' = Append(ev, <<"exec", j, calls[j]>>)
                     /\ pc' = "exec"

\* the range loop over calls, entered at index i with the conversation conv:
\* it runs to the next prompt, the next Execute, or its end
ToolLoop(conv, calls, i, executed, anyPermission, ev) ==
  LET j == NextKnown(tools, calls, i)
  IN /\ idx' = j
     /\ toolsExecuted' = executed
     /\ IF j > Len(calls)
        THEN /\ anyToolRequiredPermission' = anyPermission
             /\ events' = ev
             /\ Return(conv, ShouldContinue(executed, anyPermission), FALSE)
        ELSE /\ conversation' = conv
             /\ UNCHANGED <<shouldContinue, iteration, ret, request, modelCalls>>
             /\ IF RequiresPermission(tools, calls[j])
                THEN /\ anyToolRequiredPermission' = TRUE
                     /\ events' = ev
                     /\ pc' = "ask"
                ELSE /\ anyToolRequiredPermission' = anyPermission
                     /\ events' = Append(ev, <<"exec", j, calls[j]>>)
                     /\ pc' = "exec"

\* the scanner loop ended without a read error: append the accumulated
\* message and process its invocations
Finalize(fm) ==
  LET conv == AfterScan(conversation, fm, FALSE)
  IN /\ finalMessage' = fm
     /\ asstAt' = Len(conv)
     /\ ToolLoop(conv, fm.tool_calls, 1, 0, FALSE, <<>>)

(***************************************************************************)
(* Actions.                                                                *)
(***************************************************************************)
\* a faulty variant: an empty line is sent to the model like any other
EmptyInputAsMessage ==
  /\ pc = "prompt" /\ fuel > 0
  /\ input' = ""
  /\ conversation' = Append(conversation, UserTurn(""))
  /\ request' = BuildRequest(Append(conversation, UserTurn("")), tools)
  /\ iteration' = 0
  /\ pc' = "await"
  /\ ret' = "none"
  /\ modelCalls' = 1
  /\ failed' = FALSE
  /\ asstAt' = 0
  /\ delivered' = <<>>
  /\ events' = <<>>
  /\ results' = <<>>
  /\ ended' = ""
  /\ Burn
  /\ UNCHANGED <<svars, rvars, cvars, avars>>
  /\ UNCHANGED << tools, finalMessage, idx, toolsExecuted,
                  anyToolRequiredPermission, shouldContinue, response,
                  lastCmd, prevCmd >>

\* main: input == "" -> continue
EmptyInput ==
  /\ pc = "prompt" /\ fuel > 0
  /\ input' = ""
  /\ Burn
  /\ UNCHANGED <<svars, rvars, cvars, avars>>
  /\ UNCHANGED << tools, conversation, pc, iteration, ret, request, finalMessage,
                  idx, toolsExecuted, anyToolRequiredPermission, shouldContinue,
                  response, modelCalls, delivered, events, asstAt, failed,
                  lastCmd, prevCmd, results, ended >>

\* main: input == "exit" -> break
Exit ==
  /\ pc = "prompt"
  /\ input' = "exit"
  /\ pc' = "exited"
  /\ lastCmd' = "exit" /\ prevCmd' = lastCmd
  /\ Burn
  /\ UNCHANGED <<svars, rvars, cvars, avars>>
  /\ UNCHANGED << tools, conversation, iteration, ret, request, finalMessage,
                  idx, toolsExecuted, anyToolRequiredPermission, shouldContinue,
                  response, modelCalls, delivered, events, asstAt, failed,
                  results, ended >>

\* a faulty variant: the clear command also empties the registry
ClearDroppingTools ==
  /\ pc = "prompt" /\ fuel > 0
  /\ input' = "clear"
  /\ conversation' = ClearConversation(conversation)
  /\ tools' = [n \in {} |-> FALSE]
  /\ lastCmd' = "clear" /\ prevCmd' = lastCmd
  /\ asstAt' = 0
  /\ delivered' = <<>>
  /\ events' = <<>>
  /\ results' = <<>>
  /\ ended' = ""
  /\ Burn
  /\ UNCHANGED <<svars, rvars, cvars, avars>>
  /\ UNCHANGED << pc, iteration, ret, request, finalMessage,
                  idx, toolsExecuted, anyToolRequiredPermission, shouldContinue,
                  response, modelCalls, failed >>

\* main: input == "clear"
Clear ==
  /\ pc = "prompt" /\ fuel > 0
  /\ input' = "clear"
  /\ conversation' = ClearConversation(conversation)
  /\ lastCmd' = "clear" /\ prevCmd' = lastCmd
  /\ asstAt' = 0
  /\ delivered' = <<>>
  /\ events' = <<>>
  /\ results' = <<>>
  /\ ended' = ""
  /\ Burn
  /\ UNCHANGED <<svars, rvars, cvars, avars>>
  /\ UNCHANGED << tools, pc, iteration, ret, request, finalMessage,
                  idx, toolsExecuted, anyToolRequiredPermission, shouldContinue,
                  response, modelCalls, failed >>

\* main: agent.ProcessMessage(input), up to the first http.DefaultClient.Do
ProcessMessage ==
  /\ pc = "prompt" /\ fuel > 0
  /\ \E userMessage \in Inputs \ {"", "exit", "clear"} :
       LET conv == Append(conversation, UserTurn(userMessage))
       IN /\ input' = userMessage
          /\ conversation' = conv
          /\ request' = BuildRequest(conv, tools)
  /\ iteration' = 0
  /\ pc' = "await"
  /\ ret' = "none"
  /\ modelCalls' = 1
  /\ failed' = FALSE
  /\ asstAt' = 0
  /\ delivered' = <<>>
  /\ events' = <<>>
  /\ results' = <<>>
  /\ ended' = ""
  /\ lastCmd' = "message" /\ prevCmd' = lastCmd
  /\ Burn
  /\ UNCHANGED <<svars, rvars, cvars, avars>>
  /\ UNCHANGED << tools, finalMessage, idx, toolsExecuted,
                  anyToolRequiredPermission, shouldContinue, response >>

\* http.DefaultClient.Do returns an error: return false, err
RequestFails ==
  /\ pc = "await" /\ fuel > 0
  /\ failed' = TRUE
  /\ Return(conversation, FALSE, TRUE)
  /\ asstAt' = 0
  /\ delivered' = <<>>
  /\ events' = <<>>
  /\ results' = <<>>
  /\ ended' = ""
  /\ Burn
  /\ UNCHANGED <<svars, rvars, cvars, avars>>
  /\ UNCHANGED << tools, input, finalMessage, idx, toolsExecuted,
                  anyToolRequiredPermission, response, lastCmd, prevCmd >>

\* http.DefaultClient.Do returns a response: the scanner loop starts
ResponseArrives ==
  /\ pc = "await"
  /\ pc' = "scan"
  /\ finalMessage' = ZeroMessage
  /\ delivered' = <<>>
  /\ events' = <<>>
  /\ results' = <<>>
  /\ ended' = ""
  /\ asstAt' = 0
  /\ Burn
  /\ UNCHANGED <<svars, rvars, cvars, avars>>
  /\ UNCHANGED << tools, conversation, input, iteration, ret, request, idx,
                  toolsExecuted, anyToolRequiredPermission, shouldContinue,
                  response, modelCalls, failed, lastCmd, prevCmd >>

\* scanner.Scan() returns a line: one pass of the loop body
ScanLine ==
  /\ pc = "scan"
  /\ \E line \in Choices(Lines, ChunkLine(PlainChunk)) :
       LET step == ScanStep(finalMessage, line)
       IN /\ delivered' = Append(delivered, line)
          /\ IF step.stop
             THEN /\ ended' = "done"
                  /\ Finalize(step.fm)
             ELSE /\ finalMessage' = step.fm
                  /\ UNCHANGED << conversation, pc, iteration, ret, request,
                                  idx, toolsExecuted, anyToolRequiredPermission,
                                  shouldContinue, modelCalls, events, asstAt,
                                  ended >>
  /\ Burn
  /\ UNCHANGED <<svars, rvars, cvars, avars>>
  /\ UNCHANGED << tools, input, response, failed, lastCmd, prevCmd, results >>

\* a faulty variant: a body that ends without a done fragment is an error
StreamEndsAsError ==
  /\ pc = "scan" /\ fuel > 0
  /\ ended' = "eof"
  /\ failed' = TRUE
  /\ Return(AfterScan(conversation, finalMessage, TRUE), FALSE, TRUE)
  /\ Burn
  /\ UNCHANGED <<svars, rvars, cvars, avars>>
  /\ UNCHANGED << tools, input, finalMessage, idx, toolsExecuted,
                  anyToolRequiredPermission, response, delivered, events, asstAt,
                  lastCmd, prevCmd, results >>

\* scanner.Scan() returns false at the end of the body, scanner.Err() == nil
StreamEnds ==
  /\ pc = "scan" /\ fuel > 0
  /\ ended' = "eof"
  /\ Finalize(finalMessage)
  /\ Burn
  /\ UNCHANGED <<svars, rvars, cvars, avars>>
  /\ UNCHANGED << tools, input, response, delivered, failed, lastCmd, prevCmd,
                  results >>

\* scanner.Scan() returns false, scanner.Err() != nil: return false, error
StreamFails ==
  /\ pc = "scan" /\ fuel > 0
  /\ failed' = TRUE
  /\ ended' = "error"
  /\ Return(AfterScan(conversation, finalMessage, TRUE), FALSE, TRUE)
  /\ Burn
  /\ UNCHANGED <<svars, rvars, cvars, avars>>
  /\ UNCHANGED << tools, input, finalMessage, idx, toolsExecuted,
                  anyToolRequiredPermission, response, delivered, events, asstAt,
                  lastCmd, prevCmd, results >>

\* askPermission's readInput returns the operator's answer
AnswerPermission ==
  /\ pc = "ask"
  /\ \E answer \in Choices(Answers, <<"n", "o">>) :
       LET toolName == finalMessage.tool_calls[idx]
           ev == Append(events, <<"ask", idx, toolName, answer>>)
       IN /\ response' = answer
          /\ IF askPermission(answer)
             THEN /\ pc' = "exec"
                  /\ events' = Append(ev, <<"exec", idx, toolName>>)
                  /\ UNCHANGED << conversation, iteration, ret, request, idx,
                                  toolsExecuted, anyToolRequiredPermission,
                                  shouldContinue, modelCalls >>
             ELSE ToolLoop(Append(conversation, ToolTurn(DeniedText(toolName))),
                           finalMessage.tool_calls, idx + 1, toolsExecuted,
                           anyToolRequiredPermission, ev)
  /\ Burn
  /\ UNCHANGED <<svars, rvars, cvars, avars>>
  /\ UNCHANGED << tools, input, finalMessage, delivered, asstAt, failed,
                  lastCmd, prevCmd, results, ended >>

\* tool.Execute returns: the result is appended and the loop goes on
ExecuteReturns ==
  /\ pc = "exec"
  /\ \E ok \in Choices(BOOLEAN, TRUE) :
       LET toolName == finalMessage.tool_calls[idx]
       IN /\ results' = Append(results, [idx |-> idx, name |-> toolName, ok |-> ok])
          /\ ToolLoop(Append(conversation, ToolTurn(ResultText(toolName, ok))),
                      finalMessage.tool_calls, idx + 1,
                      CountExecution(toolsExecuted, ok),
                      anyToolRequiredPermission, events)
  /\ Burn
  /\ UNCHANGED <<svars, rvars, cvars, avars>>
  /\ UNCHANGED << tools, input, finalMessage, response, delivered, asstAt,
                  failed, lastCmd, prevCmd, ended >>

Next ==
  \/ EmptyInput
  \/ Exit
  \/ Clear
  \/ ProcessMessage
  \/ RequestFails
  \/ ResponseArrives
  \/ ScanLine
  \/ StreamEnds
  \/ StreamFails
  \/ AnswerPermission
  \/ ExecuteReturns

Spec == Init /\ [][Next]_vars

(***************************************************************************)
(* The spinner revision: processOneResponse of src/unnamed/part_002 with   *)
(* the Spinner of src/pretty/spinner.go.  A step of a thread is what it    *)
(* does between two points where the other thread can be seen: a terminal  *)
(* write, the done channel, the end of Stop.                               *)
(***************************************************************************)
\* round-trips, and lines of one response body
MaxRounds == 2
MaxLines == 2

\* the animation frames
chars == <<"f0", "f1", "f2", "f3", "f4", "f5", "f6", "f7", "f8", "f9">>

\* the lines of a response body, by what the loop body does with them: an
\* empty line, a line that does not parse, a fragment with thinking or
\* content, a fragment with neither, and the two with done = true
SpinnerLines == {"empty", "malformed", "text", "plain", "textDone", "plainDone"}

\* a faulty variant: Stop does not test this.active
StopAlwaysSends(isActive) == [active |-> FALSE, send |-> TRUE]

\* Spinner.Stop: on an inactive spinner it returns, on an active one it sets
\* active = false and sends on done
Stop(isActive) == [active |-> FALSE, send |-> isActive]

\* where the agent thread goes on when the Stop it called returns
AfterStop(at) ==
  CASE at = "stopLine" -> "line"
    [] at = "stopErr" -> "stopDefer"
    [] at = "stopDefer" -> "idle"

\* what a goroutine's write adds to late
Late(what) == IF rendered THEN late \cup {what} ELSE late

\* processOneResponse is called: NewSpinner, spinner.Start(), the request is
\* built and sent.  The goroutine of the spinner before, if it has not printed
\* its "\r\033[K", is still alive.
BeginRoundTrip ==
  /\ agentPc = "idle" /\ rounds < MaxRounds
  /\ agentPc' = "await"
  /\ active' = TRUE
  /\ spinnerPc' = "select"
  /\ frame' = 0
  /\ lingering' = lingering + (IF spinnerPc = "clear" THEN 1 ELSE 0)
  /\ rounds' = rounds + 1
  /\ linesRead' = 0
  /\ rendered' = FALSE
  /\ late' = {}
  /\ stops' = 0
  /\ sends' = 0
  /\ path' = ""
  /\ UNCHANGED <<sending, curLine>>
  /\ UNCHANGED <<vars, rvars, cvars, avars>>

\* http.DefaultClient.Do returns an error: return, the deferred Stop runs
SpinnerRequestFails ==
  /\ agentPc = "await"
  /\ agentPc' = "stopDefer"
  /\ path' = "requestError"
  /\ UNCHANGED << active, sending, spinnerPc, frame, lingering, curLine, rounds,
                  linesRead, rendered, late, stops, sends >>
  /\ UNCHANGED <<vars, rvars, cvars, avars>>

\* http.DefaultClient.Do returns a response
SpinnerResponseArrives ==
  /\ agentPc = "await"
  /\ agentPc' = "scan"
  /\ UNCHANGED << active, sending, spinnerPc, frame, lingering, curLine, rounds,
                  linesRead, rendered, late, stops, sends, path >>
  /\ UNCHANGED <<vars, rvars, cvars, avars>>

\* scanner.Scan() returns true: the loop body begins with spinner.Stop()
ReadLine ==
  /\ agentPc = "scan" /\ linesRead < MaxLines
  /\ \E l \in SpinnerLines : curLine' = l
  /\ linesRead' = linesRead + 1
  /\ agentPc' = "stopLine"
  /\ UNCHANGED << active, sending, spinnerPc, frame, lingering, rounds,
                  rendered, late, stops, sends, path >>
  /\ UNCHANGED <<vars, rvars, cvars, avars>>

\* scanner.Scan() returns false, scanner.Err() == nil: the turn is appended,
\* processOneResponse returns, the deferred Stop runs
EndOfStream ==
  /\ agentPc = "scan"
  /\ agentPc' = "stopDefer"
  /\ path' = IF linesRead = 0 THEN "emptyStream" ELSE "success"
  /\ UNCHANGED << active, sending, spinnerPc, frame, lingering, curLine, rounds,
                  linesRead, rendered, late, stops, sends >>
  /\ UNCHANGED <<vars, rvars, cvars, avars>>

\* scanner.Scan() returns false, scanner.Err() != nil: spinner.Stop(), return
ReadError ==
  /\ agentPc = "scan"
  /\ agentPc' = "stopErr"
  /\ path' = "readError"
  /\ UNCHANGED << active, sending, spinnerPc, frame, lingering, curLine, rounds,
                  linesRead, rendered, late, stops, sends >>
  /\ UNCHANGED <<vars, rvars, cvars, avars>>

\* the agent thread calls Stop: it returns at once, or blocks in the send
CallStop ==
  /\ agentPc \in {"stopLine", "stopErr", "stopDefer"} /\ ~sending
  /\ stops' = stops + 1
  /\ active' = Stop(active).active
  /\ IF Stop(active).send
     THEN /\ sending' = TRUE
          /\ sends' = sends + 1
          /\ UNCHANGED agentPc
     ELSE /\ agentPc' = AfterStop(agentPc)
          /\ UNCHANGED <<sending, sends>>
  /\ UNCHANGED << spinnerPc, frame, lingering, curLine, rounds, linesRead,
                  rendered, late, path >>
  /\ UNCHANGED <<vars, rvars, cvars, avars>>

\* the rest of the loop body: an empty or malformed line is skipped, thinking
\* and content are printed, done breaks
HandleLine ==
  /\ agentPc = "line"
  /\ rendered' = (rendered \/ curLine \in {"text", "textDone"})
  /\ IF curLine \in {"textDone", "plainDone"}
     THEN agentPc' = "stopDefer" /\ path' = "success"
     ELSE agentPc' = "scan" /\ UNCHANGED path
  /\ UNCHANGED << active, sending, spinnerPc, frame, lingering, curLine, rounds,
                  linesRead, late, stops, sends >>
  /\ UNCHANGED <<vars, rvars, cvars, avars>>

\* the goroutine's select finds no sender: the default case
SelectDefault ==
  /\ spinnerPc = "select" /\ ~sending
  /\ spinnerPc' = "frame"
  /\ UNCHANGED << agentPc, active, sending, frame, lingering, curLine, rounds,
                  linesRead, rendered, late, stops, sends, path >>
  /\ UNCHANGED <<vars, rvars, cvars, avars>>

\* the default case: a frame is printed, i advances, the goroutine sleeps
PrintFrame ==
  /\ spinnerPc = "frame"
  /\ late' = Late("frame")
  /\ frame' = (frame + 1) % Len(chars)
  /\ spinnerPc' = "select"
  /\ UNCHANGED << agentPc, active, sending, lingering, curLine, rounds,
                  linesRead, rendered, stops, sends, path >>
  /\ UNCHANGED <<vars, rvars, cvars, avars>>

\* the goroutine's select receives from done: the send of Stop completes and
\* Stop returns
ReceiveDone ==
  /\ spinnerPc = "select" /\ sending
  /\ spinnerPc' = "clear"
  /\ sending' = FALSE
  /\ agentPc' = AfterStop(agentPc)
  /\ UNCHANGED << active, frame, lingering, curLine, rounds, linesRead,
                  rendered, late, stops, sends, path >>
  /\ UNCHANGED <<vars, rvars, cvars, avars>>

\* fmt.Print("\r\033[K") and return
PrintClear ==
  /\ spinnerPc = "clear"
  /\ late' = Late("clear")
  /\ spinnerPc' = "exited"
  /\ UNCHANGED << agentPc, active, sending, frame, lingering, curLine, rounds,
                  linesRead, rendered, stops, sends, path >>
  /\ UNCHANGED <<vars, rvars, cvars, avars>>

\* the same, by the goroutine of an earlier spinner
LingeringClear ==
  /\ lingering > 0
  /\ lingering' = lingering - 1
  /\ late' = Late("lingering")
  /\ UNCHANGED << agentPc, active, sending, spinnerPc, frame, curLine, rounds,
                  linesRead, rendered, stops, sends, path >>
  /\ UNCHANGED <<vars, rvars, cvars, avars>>

SpinnerNext ==
  \/ BeginRoundTrip
  \/ SpinnerRequestFails
  \/ SpinnerResponseArrives
  \/ ReadLine
  \/ EndOfStream
  \/ ReadError
  \/ CallStop
  \/ HandleLine
  \/ SelectDefault
  \/ PrintFrame
  \/ ReceiveDone
  \/ PrintClear
  \/ LingeringClear

SpinnerSpec == Init /\ [][SpinnerNext]_<<vars, svars, rvars>>

(***************************************************************************)
(* The registry: RegisterTool and getToolDefinitions on the tools map.     *)
(* A tool is its name and what its RequiresPermission() returns.           *)
(***************************************************************************)
\* RegisterTool calls after startup, and catalogs built
MaxRegistrations == 2
MaxBuilds == 2

\* tools that may be registered after startup: two under names main has
\* registered, one under a new name
Candidates ==
  { [name |-> n, requiresPermission |-> p] :
      n \in {"read_file", "run_command", "fetch_url"}, p \in BOOLEAN }

\* a faulty variant: the tool registered first under a name is kept
RegisterToolFirstWins(reg, tool) ==
  IF tool.name \in DOMAIN reg THEN reg
  ELSE [n \in DOMAIN reg \cup {tool.name} |->
          IF n = tool.name THEN tool.requiresPermission ELSE reg[n]]

\* this.tools[tool.Name()] = tool
RegisterTool(reg, tool) ==
  [n \in DOMAIN reg \cup {tool.name} |->
     IF n = tool.name THEN tool.requiresPermission ELSE reg[n]]

\* the slots after the assignment: a key the map holds keeps its slot
SlotsAfter(s, name) ==
  IF \E i \in DOMAIN s : s[i] = name THEN s ELSE Append(s, name)

\* range over the map: Go leaves the order unspecified and its runtime
\* starts every iteration over a small map at a random slot, wrapping around
Rotation(s, k) == [i \in 1..Len(s) |-> s[((i - 1 + k) % Len(s)) + 1]]
Orders(s) == {Rotation(s, k) : k \in 0..(Len(s) - 1)}

\* agent.RegisterTool(tool)
Register ==
  /\ builds = 0 /\ Len(registered) < MaxRegistrations
  /\ \E tool \in Candidates :
       /\ tools' = RegisterTool(tools, tool)
       /\ slots' = SlotsAfter(slots, tool.name)
       /\ registered' = Append(registered, tool)
  /\ UNCHANGED <<catalog, builds, previous>>
  /\ UNCHANGED << conversation, pc, input, iteration, ret, request, finalMessage,
                  idx, toolsExecuted, anyToolRequiredPermission, shouldContinue,
                  response, fuel, modelCalls, delivered, events, asstAt, failed,
                  lastCmd, prevCmd, results, ended >>
  /\ UNCHANGED <<svars, cvars, avars>>

\* this.getToolDefinitions(): one definition per entry, in the order of this
\* iteration
BuildCatalog ==
  /\ builds < MaxBuilds
  /\ \E order \in Orders(slots) :
       catalog' = [i \in DOMAIN order |->
                     [name |-> order[i], requiresPermission |-> tools[order[i]]]]
  /\ previous' = catalog
  /\ builds' = builds + 1
  /\ UNCHANGED <<slots, registered>>
  /\ UNCHANGED <<vars, svars, cvars, avars>>

RegistryNext ==
  \/ Register
  \/ BuildCatalog

RegistrySpec == Init /\ [][RegistryNext]_<<vars, svars, rvars>>

(***************************************************************************)
(* The Spinner of src/pretty/spinner.go called from several threads.  What *)
(* a call does between this.mu.Lock() and the Unlock is one step: the      *)
(* mutex lets no other call see it half done.  Stop blocks in its send     *)
(* with the mutex held until a goroutine receives.                         *)
(***************************************************************************)
MaxApiCalls == 6

\* a faulty variant: Start does not look at active
StartAlwaysSpawns(isActive) == [active |-> TRUE, spawn |-> TRUE]

\* Start between Lock and Unlock: a second Start of the same period returns,
\* the first sets active and goes on to the go statement
Start(isActive) == [active |-> TRUE, spawn |-> ~isActive]

\* a thread calls Start and arrives at this.mu.Lock()
CallerStart(c) ==
  /\ callers[c].pc = "idle" /\ apiCalls < MaxApiCalls
  /\ callers' = [callers EXCEPT ![c].pc = "startLock"]
  /\ apiCalls' = apiCalls + 1
  /\ UNCHANGED <<this, routines, periods, stopsSent>>
  /\ UNCHANGED <<vars, svars, rvars, cvars>>

\* Start: Lock, the test of active, active = true, Unlock
StartLocks(c) ==
  /\ callers[c].pc = "startLock" /\ this.mu = "free"
  /\ LET r == Start(this.active)
         p == IF this.active THEN periods ELSE periods + 1
     IN /\ this' = [this EXCEPT !.active = r.active]
        /\ periods' = p
        /\ callers' = [callers EXCEPT ![c] =
                         IF r.spawn THEN [pc |-> "startGo", period |-> p]
                         ELSE [pc |-> "idle", period |-> 0]]
  /\ UNCHANGED <<routines, stopsSent, apiCalls>>
  /\ UNCHANGED <<vars, svars, rvars, cvars>>

\* Start: the go statement, and the return
StartGoes(c) ==
  /\ callers[c].pc = "startGo"
  /\ routines' = Append(routines, [period |-> callers[c].period, st |-> "select",
                                   stoppedBy |-> 0])
  /\ callers' = [callers EXCEPT ![c] = [pc |-> "idle", period |-> 0]]
  /\ UNCHANGED <<this, periods, stopsSent, apiCalls>>
  /\ UNCHANGED <<vars, svars, rvars, cvars>>

\* a thread calls Stop and arrives at this.mu.Lock()
CallerStop(c) ==
  /\ callers[c].pc = "idle" /\ apiCalls < MaxApiCalls
  /\ callers' = [callers EXCEPT ![c].pc = "stopLock"]
  /\ apiCalls' = apiCalls + 1
  /\ UNCHANGED <<this, routines, periods, stopsSent>>
  /\ UNCHANGED <<vars, svars, rvars, cvars>>

\* Stop: Lock, the test of active, active = false, and either the deferred
\* Unlock or the send, in which it blocks with the mutex held
StopLocks(c) ==
  /\ callers[c].pc = "stopLock" /\ this.mu = "free"
  /\ LET r == Stop(this.active)
     IN IF r.send
        THEN /\ this' = [active |-> r.active, mu |-> c]
             /\ callers' = [callers EXCEPT ![c].pc = "stopSend"]
             /\ stopsSent' = stopsSent + 1
        ELSE /\ this' = [this EXCEPT !.active = r.active]
             /\ callers' = [callers EXCEPT ![c].pc = "idle"]
             /\ UNCHANGED stopsSent
  /\ UNCHANGED <<routines, periods, apiCalls>>
  /\ UNCHANGED <<vars, svars, rvars, cvars>>

\* a thread is blocked in this.done <- true
Sender(c) == callers[c].pc = "stopSend"

\* the goroutine's select finds no sender and takes the default case
RoutineDefault(i) ==
  /\ i \in DOMAIN routines /\ routines[i].st = "select"
  /\ \A c \in Callers : ~Sender(c)
  /\ routines' = [routines EXCEPT ![i].st = "frame"]
  /\ UNCHANGED <<this, callers, periods, stopsSent, apiCalls>>
  /\ UNCHANGED <<vars, svars, rvars, cvars>>

\* the goroutine prints its frame, sleeps and is back at the select
RoutineFrame(i) ==
  /\ i \in DOMAIN routines /\ routines[i].st = "frame"
  /\ routines' = [routines EXCEPT ![i].st = "select"]
  /\ UNCHANGED <<this, callers, periods, stopsSent, apiCalls>>
  /\ UNCHANGED <<vars, svars, rvars, cvars>>

\* the goroutine's select receives from done: the sender's Stop unlocks and
\* returns
RoutineReceives(i) ==
  /\ i \in DOMAIN routines /\ routines[i].st = "select"
  /\ \E c \in Callers :
       /\ Sender(c)
       /\ callers' = [callers EXCEPT ![c].pc = "idle"]
  /\ routines' = [routines EXCEPT ![i].st = "clear", ![i].stoppedBy = stopsSent]
  /\ this' = [this EXCEPT !.mu = "free"]
  /\ UNCHANGED <<periods, stopsSent, apiCalls>>
  /\ UNCHANGED <<vars, svars, rvars, cvars>>

\* the goroutine prints "\r\033[K" and returns
RoutineClears(i) ==
  /\ i \in DOMAIN routines /\ routines[i].st = "clear"
  /\ routines' = [routines EXCEPT ![i].st = "exited"]
  /\ UNCHANGED <<this, callers, periods, stopsSent, apiCalls>>
  /\ UNCHANGED <<vars, svars, rvars, cvars>>

SpinnerApiNext ==
  \/ \E c \in Callers :
       \/ CallerStart(c)
       \/ StartLocks(c)
       \/ StartGoes(c)
       \/ CallerStop(c)
       \/ StopLocks(c)
  \/ \E i \in 1..MaxApiCalls :
       \/ RoutineDefault(i)
       \/ RoutineFrame(i)
       \/ RoutineReceives(i)
       \/ RoutineClears(i)

\* the scheduler runs every goroutine and every thread that is inside a call,
\* and sync.Mutex hands the lock to a waiter that keeps waiting
SpinnerApiSpec ==
  /\ Init
  /\ [][SpinnerApiNext]_avars
  /\ \A c \in Callers :
       /\ SF_avars(StartLocks(c))
       /\ SF_avars(StopLocks(c))
       /\ WF_avars(StartGoes(c))
  /\ \A i \in 1..MaxApiCalls :
       WF_avars(RoutineDefault(i) \/ RoutineFrame(i) \/ RoutineReceives(i)
                  \/ RoutineClears(i))

(***************************************************************************)
(* The two revisions side by side: the agent of                            *)
(* src/cmd/cli-ai-agent/main.go and the agent of src/unnamed/part_002,     *)
(* each reading the same user inputs, model responses, operator answers    *)
(* and tool results, the k-th of each kind at its k-th read.  A response   *)
(* is taken whole: the scanner loops of the two revisions differ only in   *)
(* the spinner.Stop() calls.                                               *)
(***************************************************************************)
MaxInputs == 2
MaxResponses == 2
MaxAnswers == 2
MaxResults == 2

\* main of part_002 registers six tools of package tools; Name() and
\* RequiresPermission() of each
SpinnerRevisionTools ==
  [ read_file                        |-> FALSE,
    write_file                       |-> TRUE,
    modify_file                      |-> TRUE,
    read_all_files_in_directory_tree |-> FALSE,
    run_shell_command                |-> TRUE,
    execute_python                   |-> TRUE ]

\* Agent.tools of a revision after main's RegisterTool calls
ToolsOf(r) == IF r = "main" THEN RegisteredTools ELSE SpinnerRevisionTools

\* a faulty variant: under the "(Y/n)" prompt an empty answer still denies
askPermissionEmptyDenies(answer) ==
  LET typed == TrimSpace(ToLower(answer))
  IN typed = <<"y">> \/ typed = <<"y", "e", "s">>

\* askPermission of part_002, under its "Allow? (Y/n): " prompt:
\* response := strings.TrimSpace(strings.ToLower(readInput()))
\* return response == "" || response == "y" || response == "yes"
askPermissionOfSpinnerRevision(answer) ==
  LET typed == TrimSpace(ToLower(answer))
  IN typed = <<>> \/ typed = <<"y">> \/ typed = <<"y", "e", "s">>

\* a faulty variant: the spinner revision compares the answer as typed
askPermissionOfAsTyped(r, answer) ==
  IF r = "main" THEN askPermission(answer)
  ELSE answer = <<>> \/ askPermissionAsTyped(answer)

\* askPermission of a revision
askPermissionOf(r, answer) ==
  IF r = "main" THEN askPermission(answer)
  ELSE askPermissionOfSpinnerRevision(answer)

\* the invocations a response may end with
ReplyCalls ==
  { <<>>, <<"read_file">>, <<"list_directory">>, <<"run_command">>,
    <<"write_file", "execute_python">> }

\* what a model call returns: an error of http.DefaultClient.Do, or a body
\* of one done fragment
FailedReply == [ok |-> FALSE, fm |-> ZeroMessage]
Replies ==
  {FailedReply} \cup
  { [ok |-> TRUE,
     fm |-> Accumulate(ZeroMessage, Chunk(<<>>, <<"b">>, "assistant", calls, TRUE))] :
    calls \in ReplyCalls }

\* the read after n reads of a sequence of inputs: the item that is there,
\* or any item when the sequence is still open, or what a closed input gives
Draw(seq, n, all, bound, closed) ==
  IF n < Len(seq) THEN {[item |-> seq[n + 1], seq |-> seq]}
  ELSE IF Len(seq) < bound THEN {[item |-> x, seq |-> Append(seq, x)] : x \in all}
  ELSE {[item |-> closed, seq |-> seq]}

\* ProcessMessage's for loop after processOneResponse returned (sc, err)
RevisionReturn(a, sc, err) ==
  LET nx == ProcessMessageNext(sc, err, a.iteration)
  IN IF nx.again
     THEN [a EXCEPT !.iteration = nx.iteration, !.pc = "await",
                    !.modelCalls = @ + 1]
     ELSE [a EXCEPT !.iteration = nx.iteration, !.pc = "prompt"]

\* the range loop over a.calls, entered at index i: it runs to the next
\* prompt, the next Execute, or its end
RevisionToolLoop(r, a, i, executed, anyPermission) ==
  LET j == NextKnown(ToolsOf(r), a.calls, i)
      b == [a EXCEPT !.idx = j, !.toolsExecuted = executed]
  IN IF j > Len(a.calls)
     THEN RevisionReturn([b EXCEPT !.anyToolRequiredPermission = anyPermission],
                         ShouldContinue(executed, anyPermission), FALSE)
     ELSE IF RequiresPermission(ToolsOf(r), a.calls[j])
          THEN [b EXCEPT !.anyToolRequiredPermission = TRUE, !.pc = "ask"]
          ELSE [b EXCEPT !.anyToolRequiredPermission = anyPermission,
                         !.pc = "exec",
                         !.log = Append(@, <<"exec", a.calls[j]>>)]

\* main's loop body for the line read at "You: "
AfterInput(a, line) ==
  CASE line = "" -> a
    [] line = "exit" -> [a EXCEPT !.pc = "exited"]
    [] line = "clear" -> [a EXCEPT !.conversation = ClearConversation(@)]
    [] OTHER -> [a EXCEPT !.conversation = Append(@, UserTurn(line)),
                          !.iteration = 0, !.pc = "await",
                          !.modelCalls = @ + 1]

\* readInput returns at the "You: " prompt with a line that is not empty (an
\* empty line only repeats the prompt)
RevisionReadsInput(r) ==
  /\ agents[r].pc = "prompt" /\ agents[r].inputs < MaxInputs
  /\ \E d \in Draw(userInputs, agents[r].inputs, Inputs \ {""}, MaxInputs, "") :
       /\ userInputs' = d.seq
       /\ agents' = [agents EXCEPT ![r] =
                       AfterInput([@ EXCEPT !.inputs = @ + 1], d.item)]
  /\ UNCHANGED <<modelResponses, operatorAnswers, toolResults>>
  /\ UNCHANGED <<vars, svars, rvars, avars>>

\* http.DefaultClient.Do returns: an error, or a body that is decoded,
\* appended and processed up to the first prompt or Execute
RevisionModelReturns(r) ==
  /\ agents[r].pc = "await"
  /\ \E d \in Draw(modelResponses, agents[r].responses, Replies, MaxResponses,
                   FailedReply) :
       LET a == [agents[r] EXCEPT !.responses = @ + 1]
       IN /\ modelResponses' = d.seq
          /\ agents' = [agents EXCEPT ![r] =
               IF ~d.item.ok THEN RevisionReturn(a, FALSE, TRUE)
               ELSE RevisionToolLoop(r,
                      [a EXCEPT !.conversation = AfterScan(@, d.item.fm, FALSE),
                                !.calls = d.item.fm.tool_calls],
                      1, 0, FALSE)]
  /\ UNCHANGED <<userInputs, operatorAnswers, toolResults>>
  /\ UNCHANGED <<vars, svars, rvars, avars>>

\* askPermission's readInput returns; a closed standard input gives ""
RevisionAnswer(r) ==
  /\ agents[r].pc = "ask"
  /\ \E d \in Draw(operatorAnswers, agents[r].answers, Answers, MaxAnswers, <<>>) :
       LET toolName == agents[r].calls[agents[r].idx]
           a == [agents[r] EXCEPT !.answers = @ + 1,
                                  !.log = Append(@, <<"ask", toolName, d.item>>)]
       IN /\ operatorAnswers' = d.seq
          /\ agents' = [agents EXCEPT ![r] =
               IF askPermissionOf(r, d.item)
               THEN [a EXCEPT !.pc = "exec",
                              !.log = Append(@, <<"exec", toolName>>)]
               ELSE RevisionToolLoop(r,
                      [a EXCEPT !.conversation =
                                  Append(@, ToolTurn(DeniedText(toolName)))],
                      a.idx + 1, a.toolsExecuted, a.anyToolRequiredPermission)]
  /\ UNCHANGED <<userInputs, modelResponses, toolResults>>
  /\ UNCHANGED <<vars, svars, rvars, avars>>

\* tool.Execute returns: the result is appended and the loop goes on
RevisionExecuteReturns(r) ==
  /\ agents[r].pc = "exec"
  /\ \E d \in Draw(toolResults, agents[r].results, BOOLEAN, MaxResults, TRUE) :
       LET toolName == agents[r].calls[agents[r].idx]
           a == [agents[r] EXCEPT !.results = @ + 1,
                                  !.conversation =
                                    Append(@, ToolTurn(ResultText(toolName, d.item)))]
       IN /\ toolResults' = d.seq
          /\ agents' = [agents EXCEPT ![r] =
               RevisionToolLoop(r, a, a.idx + 1,
                                CountExecution(a.toolsExecuted, d.item),
                                a.anyToolRequiredPermission)]
  /\ UNCHANGED <<userInputs, modelResponses, operatorAnswers>>
  /\ UNCHANGED <<vars, svars, rvars, avars>>

RevisionsNext ==
  \E r \in Revisions :
    \/ RevisionReadsInput(r)
    \/ RevisionModelReturns(r)
    \/ RevisionAnswer(r)
    \/ RevisionExecuteReturns(r)

RevisionsSpec == Init /\ [][RevisionsNext]_cvars

TypeOK ==
  /\ pc \in {"prompt", "await", "scan", "ask", "exec", "exited"}
  /\ iteration \in 0..maxIterations
  /\ fuel \in 0..MaxChoices

(***************************************************************************)
(* Reading the history.                                                    *)
(***************************************************************************)
\* answers that say yes, and answers that do not, under the "(y/N)" prompt
Affirmative == { <<"y">>, <<" ", "Y", "e", "s", " ">> }
Negative == { <<"n", "o">>, <<>> }

IsAsk(e) == e[1] = "ask"
IsExec(e) == e[1] = "exec"
IsDenial(e) == IsAsk(e) /\ e[4] \in Negative

\* the invocations of the turn appended from the current response
Invocations == IF asstAt = 0 THEN <<>> ELSE conversation[asstAt].tool_calls

\* the number of Execute calls, and of denials, among the first k events
ExecsUpTo(k) == Cardinality({j \in 1..k : IsExec(events[j])})
DenialsUpTo(k) == Cardinality({j \in 1..k : IsDenial(events[j])})

\* the number of tool-role turns the events account for: one per denial, one
\* per Execute that has returned
TurnsDue ==
  DenialsUpTo(Len(events)) + ExecsUpTo(Len(events)) - (IF pc = "exec" THEN 1 ELSE 0)

\* the round-trip that appended the turn at asstAt is over
RoundOver == asstAt > 0 /\ pc \in {"prompt", "await"}

IsRegistered(name) == name \in DOMAIN RegisteredTools

(***************************************************************************)
(* C1: when the operator answers no at the prompt of an invocation whose   *)
(* tool requires permission, Execute is never called for that invocation   *)
(* and exactly one tool-role turn "Permission denied for <toolName>" is    *)
(* appended for it.                                                        *)
(***************************************************************************)
C1_DeniedIsNotExecuted ==
  asstAt > 0 =>
    /\ \A k \in DOMAIN events :
         IsDenial(events[k]) =>
           /\ \A j \in DOMAIN events :
                IsExec(events[j]) => events[j][2] # events[k][2]
           /\ LET at == asstAt + DenialsUpTo(k) + ExecsUpTo(k)
              IN /\ at <= Len(conversation)
                 /\ conversation[at].role = "tool"
                 /\ conversation[at].content =
                      <<"Permission denied for ", events[k][3]>>
    /\ Len(conversation) = asstAt + TurnsDue

C1_Witness ==
  /\ pc = "prompt"
  /\ \E k \in DOMAIN events : IsDenial(events[k]) /\ tools[events[k][3]]

(***************************************************************************)
(* C2: every call of Execute on a tool that requires permission comes      *)
(* directly after a prompt for the same invocation answered yes, in the    *)
(* round-trip of the assistant turn that carries the invocation and after  *)
(* that turn was appended; no invocation is executed twice, so an approval *)
(* authorizes one execution.                                               *)
(***************************************************************************)
C2_ExecuteNeedsApproval ==
  /\ events # <<>> =>
       /\ asstAt > 0
       /\ asstAt <= Len(conversation)
       /\ conversation[asstAt] = finalMessage
  /\ \A k \in DOMAIN events :
       /\ events[k][2] \in DOMAIN Invocations
       /\ Invocations[events[k][2]] = events[k][3]
       /\ IsExec(events[k]) /\ tools[events[k][3]] =>
            /\ k > 1
            /\ IsAsk(events[k - 1])
            /\ events[k - 1][2] = events[k][2]
            /\ events[k - 1][4] \in Affirmative
       /\ \A j \in DOMAIN events :
            j < k /\ IsExec(events[j]) /\ IsExec(events[k]) =>
              events[j][2] < events[k][2]
  /\ pc = "exec" =>
       /\ events # <<>>
       /\ events[Len(events)] = <<"exec", idx, finalMessage.tool_calls[idx]>>

C2_Witness ==
  /\ Len(events) = 4
  /\ IsExec(events[2]) /\ tools[events[2][3]]
  /\ IsExec(events[4]) /\ tools[events[4][3]]

(***************************************************************************)
(* C3: when the assistant turn of a round-trip carries no invocation,      *)
(* processOneResponse returns shouldContinue = false and ProcessMessage    *)
(* returns without another model call.                                     *)
(***************************************************************************)
C3_NoInvocationStops ==
  asstAt > 0 /\ conversation[asstAt].tool_calls = <<>> =>
    /\ shouldContinue = FALSE
    /\ ret = "nil"
    /\ pc \in {"prompt", "exited"}

C3_Witness ==
  /\ asstAt > 0
  /\ conversation[asstAt].tool_calls = <<>>
  /\ pc = "prompt"
  /\ modelCalls = 2

(***************************************************************************)
(* C4 as stated: at the end of a round-trip whose assistant turn carries N *)
(* invocations, exactly N tool-role turns follow the assistant turn.       *)
(***************************************************************************)
C4_OneTurnPerInvocation ==
  RoundOver => Len(conversation) = asstAt + Len(Invocations)

(***************************************************************************)
(* C4 amended: at the end of a round-trip the tool-role turns that follow  *)
(* the assistant turn are, in order, one for every invocation that names a *)
(* registered tool (a result, an "Error: " text or a denial); an           *)
(* invocation of an unregistered name gets no turn.                        *)
(***************************************************************************)
C4_OneTurnPerRegisteredInvocation ==
  RoundOver =>
    LET known == SelectSeq(Invocations, IsRegistered)
    IN /\ Len(conversation) = asstAt + Len(known)
       /\ \A k \in DOMAIN known :
            /\ conversation[asstAt + k].role = "tool"
            /\ conversation[asstAt + k].content \in
                 { <<"Permission denied for ", known[k]>>,
                   <<"output of ", known[k]>>,
                   <<"Error: ", known[k], " failed">> }

C4_Witness ==
  /\ RoundOver
  /\ Invocations = <<"no_such_tool", "read_file">>
  /\ conversation[Len(conversation)].content = <<"Error: ", "read_file", " failed">>

(***************************************************************************)
(* C5: after a round-trip that succeeded, another model call is issued     *)
(* exactly when a tool was executed in it, none of its invocations names a *)
(* registered tool that requires permission, and fewer than 10 iterations  *)
(* have been used.                                                         *)
(***************************************************************************)
C5_ContinueIffExecutedAndNoPermission ==
  RoundOver =>
    ( pc = "await" <=>
        /\ ExecsUpTo(Len(events)) >= 1
        /\ \A i \in DOMAIN Invocations :
             IsRegistered(Invocations[i]) => ~RegisteredTools[Invocations[i]]
        /\ iteration < 10 )

C5_Witness ==
  /\ RoundOver
  /\ pc = "await"
  /\ Invocations = <<"read_file", "no_such_tool">>

\* s is a prefix of t
IsPrefix(s, t) == Len(s) <= Len(t) /\ SubSeq(t, 1, Len(s)) = s

(***************************************************************************)
(* C6: one user message causes at most 10 model calls; when the 10th       *)
(* round-trip asks to continue, ProcessMessage returns nil, and the        *)
(* conversation holds every turn appended: the turns sent in the 10th      *)
(* request, the assistant turn and its tool-role turns.                    *)
(***************************************************************************)
C6_AtMostTenRoundTrips ==
  /\ modelCalls <= 10
  /\ pc = "prompt" /\ lastCmd = "message" /\ ret = "nil" /\ shouldContinue =>
       /\ modelCalls = 10
       /\ asstAt = Len(request.messages) + 1
       /\ IsPrefix(request.messages, conversation)
       /\ conversation[asstAt] = finalMessage
       /\ Len(conversation) = asstAt + TurnsDue
       /\ Len(conversation) >= 1 + 2 * 10

C6_Witness ==
  /\ pc = "prompt" /\ ret = "nil" /\ shouldContinue
  /\ iteration = 10

(***************************************************************************)
(* C7: after the clear command the conversation is empty, and the first    *)
(* request of the next user message carries exactly one message, the new   *)
(* user turn.                                                              *)
(***************************************************************************)
C7_ClearEmptiesConversation ==
  /\ lastCmd = "clear" => conversation = <<>>
  /\ prevCmd = "clear" /\ lastCmd = "message" /\ modelCalls = 1
       /\ pc \notin {"prompt", "exited"} =>
       /\ request.messages =
            << [role |-> "user", content |-> <<input>>,
                thinking |-> <<>>, tool_calls |-> <<>>] >>
       /\ pc = "await" => conversation = request.messages

\* the first request after a clear that followed a decoded response
C7_Witness ==
  /\ prevCmd = "clear" /\ lastCmd = "message"
  /\ pc = "await" /\ modelCalls = 1
  /\ finalMessage.content # <<>>
  /\ request.messages = conversation

(***************************************************************************)
(* C8: when a round-trip fails (the request cannot be sent, or the stream  *)
(* ends with a read error, also after fragments were accumulated), the     *)
(* error is returned and the conversation is what it was when the          *)
(* round-trip began: the turns of its request, nothing more.               *)
(***************************************************************************)
C8_FailedRoundTripAppendsNothing ==
  failed /\ lastCmd = "message" =>
    /\ ret = "error"
    /\ conversation = request.messages
    /\ asstAt = 0

\* a read error after a fragment with content was accumulated
C8_Witness ==
  /\ failed /\ pc = "prompt"
  /\ finalMessage.content # <<>>
  /\ delivered # <<>>
  /\ delivered[Len(delivered)].kind = "chunk"

(***************************************************************************)
(* C9: when a model call fails, ProcessMessage returns the error at once,  *)
(* without another model call for that user message, and main is back at   *)
(* its prompt (it exits only on the operator's exit).                      *)
(***************************************************************************)
C9_NoRetryAfterFailure ==
  failed =>
    /\ ret = "error"
    /\ pc \in {"prompt", "exited"}
    /\ pc = "exited" => lastCmd = "exit"
    /\ iteration = modelCalls - 1

\* the second model call of a user message failed
C9_Witness ==
  /\ failed
  /\ pc = "prompt"
  /\ modelCalls = 2

\* the concatenation of the content (thinking) fields of the fragments in lines
RECURSIVE AllContent(_)
AllContent(lines) ==
  IF lines = <<>> THEN <<>>
  ELSE Head(lines).chunk.content \o AllContent(Tail(lines))
RECURSIVE AllThinking(_)
AllThinking(lines) ==
  IF lines = <<>> THEN <<>>
  ELSE Head(lines).chunk.thinking \o AllThinking(Tail(lines))

\* every line read was a fragment that parsed, and the last one said done
WellFormedUntilDone ==
  /\ delivered # <<>>
  /\ \A i \in DOMAIN delivered : delivered[i].kind = "chunk"
  /\ delivered[Len(delivered)].chunk.done

(***************************************************************************)
(* C10: for a stream of well-formed fragments that ends with done = true,  *)
(* the Content of the appended turn is the concatenation, in arrival       *)
(* order, of the fragments' content fields, and its Thinking that of their *)
(* thinking fields.                                                        *)
(***************************************************************************)
C10_TextIsConcatenation ==
  asstAt > 0 /\ WellFormedUntilDone =>
    /\ conversation[asstAt].content = AllContent(delivered)
    /\ conversation[asstAt].thinking = AllThinking(delivered)

C10_Witness ==
  /\ asstAt > 0 /\ WellFormedUntilDone
  /\ Len(delivered) = 4
  /\ conversation[asstAt].content = <<"a", "b">>
  /\ conversation[asstAt].thinking = <<"t", "u">>
  /\ conversation[asstAt].tool_calls # <<>>

\* lines without the lines that json.Unmarshal rejects
WithoutMalformed(lines) == SelectSeq(lines, LAMBDA l : l.kind # "malformed")

\* the accumulator when the scanner loop, entered with fm, has read lines
RECURSIVE Decode(_, _)
Decode(fm, lines) ==
  IF lines = <<>> THEN fm
  ELSE LET step == ScanStep(fm, Head(lines))
       IN IF step.stop THEN step.fm ELSE Decode(step.fm, Tail(lines))

(***************************************************************************)
(* C11: a line that fails to parse, wherever it stands in the stream, is   *)
(* skipped without ending the stream: the scanner loop never ends on it,   *)
(* and the accumulator, hence the assistant turn appended, is the one of   *)
(* the stream with the malformed lines removed.                            *)
(***************************************************************************)
C11_MalformedIsSkipped ==
  /\ ended = "done" => delivered[Len(delivered)].kind = "chunk"
  /\ pc = "scan" => finalMessage = Decode(ZeroMessage, WithoutMalformed(delivered))
  /\ asstAt > 0 =>
       conversation[asstAt] = Decode(ZeroMessage, WithoutMalformed(delivered))

\* a malformed line between two fragments that both contributed
C11_Witness ==
  /\ asstAt > 0
  /\ Len(delivered) = 3
  /\ delivered[2].kind = "malformed"
  /\ conversation[asstAt].content = <<"a", "b">>

\* the conversation starts with a user turn answered by an assistant turn
\* that has no content and invokes one registered tool that needs no permission
FirstResponseInvokesExempt ==
  /\ Len(conversation) >= 2
  /\ conversation[1].role = "user"
  /\ conversation[2].role = "assistant"
  /\ conversation[2].content = <<>>
  /\ Len(conversation[2].tool_calls) = 1
  /\ IsRegistered(conversation[2].tool_calls[1])
  /\ ~RegisteredTools[conversation[2].tool_calls[1]]

\* the fourth turn is an assistant turn with content and no invocation
SecondResponseIsText ==
  /\ Len(conversation) >= 4
  /\ conversation[4].role = "assistant"
  /\ conversation[4].content # <<>>
  /\ conversation[4].tool_calls = <<>>

(***************************************************************************)
(* C12: end to end.  When the first response carries no content and one    *)
(* invocation of a registered tool that needs no permission, the tool is   *)
(* executed without a prompt, its result is appended as a tool-role turn   *)
(* and a second model call is issued without operator input; when the      *)
(* second response carries content and no tool call, ProcessMessage        *)
(* returns after exactly two model calls and the conversation is           *)
(* [user, assistant, tool, assistant].                                     *)
(***************************************************************************)
C12_ToolThenText ==
  FirstResponseInvokesExempt =>
    LET toolName == conversation[2].tool_calls[1]
    IN /\ Len(conversation) = 2 =>
            /\ pc = "exec"
            /\ modelCalls = 1
            /\ events = << <<"exec", 1, toolName>> >>
       /\ Len(conversation) >= 3 =>
            /\ conversation[3].role = "tool"
            /\ conversation[3].content \in
                 { <<"output of ", toolName>>, <<"Error: ", toolName, " failed">> }
       /\ Len(conversation) = 3 =>
            \/ pc \in {"await", "scan"} /\ modelCalls = 2
            \/ failed /\ pc \in {"prompt", "exited"}
       /\ SecondResponseIsText =>
            /\ Len(conversation) = 4 =>
                 /\ pc \in {"prompt", "exited"}
                 /\ modelCalls = 2
                 /\ ret = "nil"
                 /\ ~shouldContinue
            /\ Len(conversation) >= 5 => conversation[5].role = "user"

\* the second response was text and ProcessMessage has returned
C12_Witness ==
  /\ FirstResponseInvokesExempt
  /\ SecondResponseIsText
  /\ Len(conversation) = 4
  /\ pc = "prompt"
  /\ modelCalls = 2

\* the conversation starts with a user turn answered by an assistant turn
\* that invokes one registered tool that requires permission
FirstResponseInvokesGuarded ==
  /\ Len(conversation) >= 2
  /\ conversation[1].role = "user"
  /\ Len(conversation[2].tool_calls) = 1
  /\ IsRegistered(conversation[2].tool_calls[1])
  /\ RegisteredTools[conversation[2].tool_calls[1]]

(***************************************************************************)
(* C13: end to end.  When the response to a user message invokes one tool  *)
(* that requires permission and the operator answers no, the conversation  *)
(* ends as [user, assistant, tool "Permission denied for <tool>"], the     *)
(* tool was not executed, and ProcessMessage returns nil after exactly one *)
(* model call: no further round-trip, although no tool was executed.       *)
(***************************************************************************)
C13_DenialEndsTheMessage ==
  /\ FirstResponseInvokesGuarded
  /\ asstAt = 2
  /\ events # <<>>
  /\ events[1] = <<"ask", 1, conversation[2].tool_calls[1], <<"n", "o">>>>
  =>
    /\ Len(conversation) = 3
    /\ conversation[3] =
         [ role |-> "tool",
           content |-> <<"Permission denied for ", conversation[2].tool_calls[1]>>,
           thinking |-> <<>>, tool_calls |-> <<>> ]
    /\ Len(events) = 1
    /\ results = <<>>
    /\ toolsExecuted = 0
    /\ pc \in {"prompt", "exited"}
    /\ modelCalls = 1
    /\ ret = "nil"
    /\ ~shouldContinue

\* the operator said no to run_command and main is back at its prompt
C13_Witness ==
  /\ FirstResponseInvokesGuarded
  /\ asstAt = 2
  /\ events = << <<"ask", 1, "run_command", <<"n", "o">>>> >>
  /\ pc = "prompt"
  /\ Len(conversation) = 3

\* the positions of the invocations that name a registered tool
RegisteredAt == {i \in DOMAIN Invocations : IsRegistered(Invocations[i])}

\* the positions the events speak of, in the order of the events
EventPositions == [k \in DOMAIN events |-> events[k][2]]

(***************************************************************************)
(* C14: an invocation that names no registered tool is skipped: there is   *)
(* no prompt and no Execute for it, no turn is appended for it, the        *)
(* round-trip returns no error because of it, and the invocations after it *)
(* are processed, in their order.                                          *)
(***************************************************************************)
C14_UnknownToolIsSkipped ==
  asstAt > 0 =>
    /\ \A k \in DOMAIN events : events[k][2] \in RegisteredAt
    /\ \A r \in DOMAIN results : results[r].idx \in RegisteredAt
    /\ \A k \in DOMAIN events : \A m \in DOMAIN events :
         k < m => events[k][2] <= events[m][2]
    /\ Len(conversation) = asstAt + TurnsDue
    /\ pc \in {"ask", "exec"} =>
         /\ idx \in RegisteredAt
         /\ \A i \in RegisteredAt : i < idx => \E k \in DOMAIN events : events[k][2] = i
    /\ RoundOver =>
         /\ \A i \in RegisteredAt : \E k \in DOMAIN events : events[k][2] = i
         /\ ~failed /\ ret # "error"

\* an unknown tool came first and the tool after it was executed
C14_Witness ==
  /\ Invocations = <<"no_such_tool", "read_file">>
  /\ events = << <<"exec", 2, "read_file">> >>
  /\ results = << [idx |-> 2, name |-> "read_file", ok |-> TRUE] >>
  /\ pc = "await"
  /\ Len(conversation) = asstAt + 1

\* the event of the r-th Execute call of the round-trip, and the position in
\* the conversation of the turn appended when it returned
ExecEventOf(r) == CHOOSE k \in DOMAIN events : IsExec(events[k]) /\ ExecsUpTo(k) = r
TurnOf(r) == asstAt + DenialsUpTo(ExecEventOf(r)) + r

(***************************************************************************)
(* C15: when Execute returns an error, the round-trip returns no error:    *)
(* one tool-role turn is appended whose content is "Error: " followed by   *)
(* the error's text, and the loop goes on to the invocations after it.     *)
(***************************************************************************)
C15_ExecuteErrorIsData ==
  asstAt > 0 =>
    \A r \in DOMAIN results :
      ~results[r].ok =>
        /\ conversation[TurnOf(r)] =
             [ role |-> "tool",
               content |-> <<"Error: ">> \o ToolError(results[r].name),
               thinking |-> <<>>, tool_calls |-> <<>> ]
        /\ Len(conversation) = asstAt + TurnsDue
        /\ ~failed
        /\ ret # "error"
        /\ pc \in {"ask", "exec"} => idx > results[r].idx
        /\ RoundOver =>
             \A i \in RegisteredAt : \E k \in DOMAIN events : events[k][2] = i

\* run_command failed and read_file, invoked after it, was executed
C15_Witness ==
  /\ RoundOver
  /\ Invocations = <<"run_command", "read_file">>
  /\ results = << [idx |-> 1, name |-> "run_command", ok |-> FALSE],
                  [idx |-> 2, name |-> "read_file", ok |-> TRUE] >>
  /\ conversation[asstAt + 1].content = <<"Error: ", "run_command", " failed">>
  /\ Len(conversation) = asstAt + 2

\* s is a suffix of t
IsSuffix(s, t) == Len(s) <= Len(t) /\ SubSeq(t, Len(t) - Len(s) + 1, Len(t)) = s

\* line is a fragment that says done
IsDoneLine(line) == line.kind = "chunk" /\ line.chunk.done

(***************************************************************************)
(* C16: the scanner loop stops at the first fragment with done = true:     *)
(* no line is read after it, the fields of that fragment are in the        *)
(* assistant turn appended, and the turn is the accumulator as it was when *)
(* that fragment had been read.                                            *)
(***************************************************************************)
C16_StopsAtFirstDone ==
  /\ \A i \in DOMAIN delivered :
       IsDoneLine(delivered[i]) =>
         /\ i = Len(delivered)
         /\ pc # "scan"
         /\ ended = "done"
  /\ ended = "done" =>
       /\ delivered # <<>>
       /\ IsDoneLine(delivered[Len(delivered)])
       /\ asstAt > 0
       /\ conversation[asstAt] = finalMessage
       /\ LET last == delivered[Len(delivered)].chunk
              turn == conversation[asstAt]
          IN /\ IsSuffix(last.content, turn.content)
             /\ IsSuffix(last.thinking, turn.thinking)
             /\ last.role # "" => turn.role = last.role
             /\ last.tool_calls # <<>> => turn.tool_calls = last.tool_calls

\* the done fragment brought content of its own after an earlier fragment
C16_Witness ==
  /\ ended = "done"
  /\ Len(delivered) = 2
  /\ delivered[2].chunk.content = <<"b">>
  /\ conversation[asstAt].content = <<"a", "b">>
  /\ pc = "prompt"

(***************************************************************************)
(* C17: when the body ends without a read error and without a fragment     *)
(* that says done (also when it holds no fragment at all), the round-trip  *)
(* is no error: exactly one assistant turn, the accumulator as it is, is   *)
(* appended after the turns of the request, and its invocations are        *)
(* processed as those of any other turn.                                   *)
(***************************************************************************)
C17_EndOfStreamFinalizes ==
  ended = "eof" =>
    /\ \A i \in DOMAIN delivered : ~IsDoneLine(delivered[i])
    /\ ~failed
    /\ ret # "error"
    /\ asstAt > 0
    /\ pc # "await" =>
         /\ asstAt = Len(request.messages) + 1
         /\ IsPrefix(request.messages, conversation)
    /\ conversation[asstAt] = Decode(ZeroMessage, delivered)
    /\ \A i \in (asstAt + 1)..Len(conversation) : conversation[i].role = "tool"
    /\ Len(conversation) = asstAt + TurnsDue
    /\ \A k \in DOMAIN events : events[k][2] \in RegisteredAt
    /\ pc \in {"ask", "exec"} => idx \in RegisteredAt
    /\ pc \in {"prompt", "exited", "await"} =>
         /\ \A i \in RegisteredAt : \E k \in DOMAIN events : events[k][2] = i
         /\ shouldContinue = (toolsExecuted > 0 /\ ~anyToolRequiredPermission)

\* the body ended after a fragment that invoked run_command without saying
\* done; the operator was asked and the tool was executed
C17_Witness ==
  /\ ended = "eof"
  /\ RoundOver
  /\ Invocations = <<"run_command">>
  /\ Len(events) = 2
  /\ Len(results) = 1
  /\ conversation[asstAt].role = "assistant"

\* the positions of the fragments of lines whose tool_calls list is not empty
WithCalls(lines) ==
  {i \in DOMAIN lines : lines[i].kind = "chunk" /\ lines[i].chunk.tool_calls # <<>>}

\* the tool_calls list of the last of them, or the empty list
LastCalls(lines) ==
  IF WithCalls(lines) = {} THEN <<>>
  ELSE LET last == CHOOSE i \in WithCalls(lines) : \A j \in WithCalls(lines) : j <= i
       IN lines[last].chunk.tool_calls

(***************************************************************************)
(* C18: the invocations of the assistant turn are those of the last        *)
(* fragment read, up to and including the done fragment, whose tool_calls  *)
(* list is not empty: a later non-empty list replaces the one held, and a  *)
(* fragment with an empty or absent list leaves it as it is.               *)
(***************************************************************************)
C18_LastCallsWin ==
  /\ pc = "scan" => finalMessage.tool_calls = LastCalls(delivered)
  /\ asstAt > 0 => conversation[asstAt].tool_calls = LastCalls(delivered)

\* a list of one invocation was replaced by the list of the done fragment
C18_Witness ==
  /\ asstAt > 0
  /\ Len(delivered) = 2
  /\ WithCalls(delivered) = {1, 2}
  /\ delivered[1].chunk.tool_calls = <<"run_command">>
  /\ delivered[2].chunk.tool_calls = <<"read_file">>
  /\ conversation[asstAt].tool_calls = <<"read_file">>

\* the positions of the invocations of registered tools that need no permission
ExemptAt == {i \in RegisteredAt : ~tools[Invocations[i]]}

\* the range loop has reached position i, and has left it
Reached(i) == RoundOver \/ (pc \in {"ask", "exec"} /\ i <= idx)
Left(i) == RoundOver \/ (pc \in {"ask", "exec"} /\ i < idx)

(***************************************************************************)
(* C19: for an invocation of a tool whose RequiresPermission() is false    *)
(* the operator is never prompted, and the tool is always executed:        *)
(* Execute is called as soon as the loop reaches the invocation, whatever  *)
(* was answered for the invocations before it.                             *)
(***************************************************************************)
C19_ExemptToolRunsUnprompted ==
  asstAt > 0 =>
    /\ \A k \in DOMAIN events : IsAsk(events[k]) => events[k][2] \notin ExemptAt
    /\ pc = "ask" => idx \notin ExemptAt
    /\ \A i \in ExemptAt :
         /\ Reached(i) =>
              \E k \in DOMAIN events : events[k] = <<"exec", i, Invocations[i]>>
         /\ Left(i) =>
              \E r \in DOMAIN results :
                results[r].idx = i /\ results[r].name = Invocations[i]

\* run_command was denied and read_file, invoked after it, was executed
\* without a prompt
C19_Witness ==
  /\ RoundOver
  /\ Invocations = <<"run_command", "read_file">>
  /\ events = << <<"ask", 1, "run_command", <<"n", "o">>>>,
                 <<"exec", 2, "read_file">> >>
  /\ Len(results) = 1

(***************************************************************************)
(* C20: the request of a round-trip holds, in order, exactly the turns the *)
(* conversation held when the round-trip began, the tool-role turns of the *)
(* round-trip before it included, and one catalog entry for each           *)
(* registered tool; turns are appended to the conversation only after the  *)
(* response was read, behind the turns that were sent.                     *)
(***************************************************************************)
C20_RequestIsConversationAndCatalog ==
  /\ DOMAIN request.tools = DOMAIN RegisteredTools
  /\ \A name \in DOMAIN request.tools : request.tools[name] = 1
  /\ pc \in {"await", "scan"} => request.messages = conversation
  /\ pc \in {"ask", "exec"} =>
       /\ IsPrefix(request.messages, conversation)
       /\ asstAt = Len(request.messages) + 1
  /\ pc = "await" /\ asstAt > 0 =>
       /\ SubSeq(request.messages, 1, asstAt) = SubSeq(conversation, 1, asstAt)
       /\ Len(request.messages) = asstAt + TurnsDue
       /\ \A i \in (asstAt + 1)..Len(request.messages) :
            /\ request.messages[i] = conversation[i]
            /\ request.messages[i].role = "tool"

\* the second request of a user message: it ends with the tool-role turn of
\* the first round-trip
C20_Witness ==
  /\ pc = "await"
  /\ modelCalls = 2
  /\ asstAt = 2
  /\ Len(request.messages) = 3
  /\ request.messages[3].role = "tool"
  /\ request.messages = conversation
  /\ Cardinality(DOMAIN request.tools) = 7

\* the step is main's handling of the input "clear"
IsClearStep == pc = "prompt" /\ input' = "clear"

(***************************************************************************)
(* C21: the conversation is append-only between clears: every step other   *)
(* than the clear command leaves the turns it finds unchanged and in       *)
(* place (the old conversation is a prefix of the new one), and the clear  *)
(* command, the only step that removes turns, removes all of them.         *)
(***************************************************************************)
C21_AppendOnlyBetweenClears ==
  [][ /\ IsClearStep => conversation' = <<>>
      /\ ~IsClearStep => IsPrefix(conversation, conversation') ]_vars

\* a second user message was appended behind the turns of the first
C21_Witness ==
  /\ pc = "await"
  /\ Len(conversation) = 3
  /\ conversation[1].role = "user"
  /\ conversation[2].content = <<"b">>
  /\ conversation[3].role = "user"

\* what the agent thread is blocked in, and the Execute calls that have begun
\* and not returned
CallInFlight == pc \in {"await", "scan"}
PromptPending == pc = "ask"
ExecutesRunning == ExecsUpTo(Len(events)) - Len(results)
Active ==
  (IF CallInFlight THEN {"call"} ELSE {})
    \cup (IF PromptPending THEN {"prompt"} ELSE {})
    \cup (IF ExecutesRunning > 0 THEN {"tool"} ELSE {})

(***************************************************************************)
(* C22: the agent loop is strictly sequential: in every reachable state at *)
(* most one of a model call in flight, a pending permission prompt and an  *)
(* executing tool is active.  While a prompt is pending every Execute that *)
(* began has returned and the response of the round-trip was read to its   *)
(* end; a tool executes only while the thread is inside Execute, one at a  *)
(* time.                                                                   *)
(***************************************************************************)
C22_StrictlySequential ==
  /\ Cardinality(Active) <= 1
  /\ ExecutesRunning \in {0, 1}
  /\ ExecutesRunning = 1 <=> pc = "exec"
  /\ PromptPending \/ pc = "exec" =>
       /\ ended \in {"done", "eof"}
       /\ request.messages # conversation
  /\ CallInFlight => request.messages = conversation

\* a prompt is pending after a tool of the same turn was executed
C22_Witness ==
  /\ PromptPending
  /\ idx = 2
  /\ Len(results) = 1
  /\ ExecutesRunning = 0

(***************************************************************************)
(* C23: in the spinner revision, in every interleaving of the agent thread *)
(* and the spinner goroutine, the goroutine of the round-trip's spinner    *)
(* prints nothing, neither a frame nor the clear-line sequence, after the  *)
(* first streamed thinking or content of the round-trip was printed.       *)
(***************************************************************************)
C23_NoSpinnerWriteAfterRender == late \cap {"frame", "clear"} = {}

\* the part of it that the code keeps: no frame is printed after that
FramesStopBeforeRender == "frame" \notin late

(***************************************************************************)
(* C24: in the spinner revision the spinner is inactive when               *)
(* processOneResponse returns, on every path (success, request error, read *)
(* error, empty stream), and Stop is idempotent: the first Stop of a       *)
(* round-trip sends on done once, and a Stop on the spinner once it is     *)
(* inactive returns without sending and changes nothing.                   *)
(***************************************************************************)
C24_SpinnerInactiveAtReturn ==
  /\ agentPc = "idle" /\ rounds > 0 =>
       /\ path \in {"success", "requestError", "readError", "emptyStream"}
       /\ ~active
       /\ ~sending
       /\ stops >= 1
  /\ sends = (IF stops = 0 THEN 0 ELSE 1)
  /\ active <=> (rounds > 0 /\ stops = 0)
  /\ sending => spinnerPc \in {"select", "frame"} /\ ~active
  /\ ~sending /\ stops > 0 => spinnerPc \in {"clear", "exited"}

\* a read error after a line: Stop was called in the loop, on the error and
\* on return, and sent once
C24_Witness ==
  /\ agentPc = "idle"
  /\ path = "readError"
  /\ stops = 3
  /\ sends = 1
  /\ ~active

(***************************************************************************)
(* C25: within one session with a fixed registry, getToolDefinitions lists *)
(* the tools in the same order in every round-trip, so that two requests   *)
(* built from the same conversation are identical.                         *)
(***************************************************************************)
C25_CatalogOrderIsStable == builds >= 2 => catalog = previous

\* what the code keeps: the two catalogs hold the same definitions
SameDefinitions ==
  builds >= 2 =>
    {catalog[i] : i \in DOMAIN catalog} = {previous[i] : i \in DOMAIN previous}

\* the positions of the registrations after startup under the name n
RegistrationsOf(n) == {i \in DOMAIN registered : registered[i].name = n}

\* the entries of the catalog under the name n
EntriesOf(n) == {i \in DOMAIN catalog : catalog[i].name = n}

(***************************************************************************)
(* C27: registering a tool under a name that is already registered is      *)
(* deterministic, the tool registered last wins: resolving the name yields *)
(* the tool registered last under it, and the catalog lists the name       *)
(* exactly once, with that tool.                                           *)
(***************************************************************************)
C27_LastRegisteredWins ==
  /\ \A n \in DOMAIN tools :
       IF RegistrationsOf(n) = {}
       THEN n \in DOMAIN RegisteredTools /\ tools[n] = RegisteredTools[n]
       ELSE LET last == CHOOSE i \in RegistrationsOf(n) :
                          \A j \in RegistrationsOf(n) : j <= i
            IN tools[n] = registered[last].requiresPermission
  /\ \A i \in DOMAIN registered : registered[i].name \in DOMAIN tools
  /\ builds > 0 =>
       /\ Len(catalog) = Cardinality(DOMAIN tools)
       /\ \A n \in DOMAIN tools :
            /\ Cardinality(EntriesOf(n)) = 1
            /\ \A i \in EntriesOf(n) : catalog[i].requiresPermission = tools[n]

\* read_file, registered at startup without permission, was registered again
\* twice, last with permission, and a catalog was built
C27_Witness ==
  /\ Len(registered) = 2
  /\ registered[1] = [name |-> "read_file", requiresPermission |-> FALSE]
  /\ registered[2] = [name |-> "read_file", requiresPermission |-> TRUE]
  /\ tools["read_file"]
  /\ builds = 1
  /\ Len(catalog) = 7

(***************************************************************************)
(* C26: after the registration at startup the registry is read-only: no    *)
(* step of ProcessMessage, processOneResponse, askPermission, the clear    *)
(* command or a tool execution changes the set of registered tools or the  *)
(* permission flag of a tool.                                              *)
(***************************************************************************)
C26_RegistryIsReadOnly ==
  [][ /\ DOMAIN tools' = DOMAIN tools
      /\ \A n \in DOMAIN tools : tools'[n] = tools[n]
      /\ tools' = RegisteredTools
      /\ slots' = slots ]_vars

\* a clear after a round-trip in which the operator allowed a tool and the
\* tool was executed
C26_Witness ==
  /\ lastCmd = "clear" /\ prevCmd = "message"
  /\ toolsExecuted = 1
  /\ response = <<"y">>
  /\ tools = RegisteredTools

(***************************************************************************)
(* C28: every turn of the conversation has a role in {user, assistant,     *)
(* tool}; the turn appended from a decoded stream has the role assistant,  *)
(* whatever role fields the fragments carry or omit.                       *)
(***************************************************************************)
C28_RolesAreKnown ==
  /\ \A i \in DOMAIN conversation :
       conversation[i].role \in {"user", "assistant", "tool"}
  /\ asstAt > 0 => conversation[asstAt].role = "assistant"

\* what the code keeps: the role of that turn is the role field of the last
\* fragment read that has one, and the empty string if there is none
WithRole(lines) ==
  {i \in DOMAIN lines : lines[i].kind = "chunk" /\ lines[i].chunk.role # ""}
RoleIsLastGiven ==
  asstAt > 0 =>
    conversation[asstAt].role =
      IF WithRole(delivered) = {} THEN ""
      ELSE LET last == CHOOSE i \in WithRole(delivered) :
                         \A j \in WithRole(delivered) : j <= i
           IN delivered[last].chunk.role

\* the step sends no request and leaves the agent out of ProcessMessage
NoModelCall == request' = request /\ modelCalls' = modelCalls /\ pc' # "await"

(***************************************************************************)
(* C29: in the interactive loop the input exit ends the session: no model  *)
(* call and no append happens with it or after it; the input clear keeps   *)
(* the session alive and issues no model call; an empty input line appends *)
(* nothing and issues no model call.                                       *)
(***************************************************************************)
C29_ExitClearAndEmptyInput ==
  [][ /\ pc = "prompt" /\ input' = "exit" =>
           pc' = "exited" /\ NoModelCall /\ conversation' = conversation
      /\ pc = "prompt" /\ input' = "clear" =>
           pc' = "prompt" /\ NoModelCall
      /\ pc = "prompt" /\ input' = "" =>
           pc' = "prompt" /\ NoModelCall /\ conversation' = conversation
      /\ pc # "exited" ]_vars

\* the session ended after a user message and a clear
C29_Witness ==
  /\ pc = "exited"
  /\ lastCmd = "exit" /\ prevCmd = "clear"
  /\ input = "exit"
  /\ modelCalls = 1
  /\ conversation = <<>>

\* the answers the operator may type, trimmed and lower-cased by hand
Canonical(answer) ==
  CASE answer = <<"y">> -> "y"
    [] answer = <<" ", "Y", "e", "s", " ">> -> "yes"
    [] answer = <<"n", "o">> -> "no"
    [] answer = <<>> -> ""

\* the prompt of events[k] was granted: Execute follows for its invocation
Granted(k) ==
  /\ k < Len(events)
  /\ events[k + 1] = <<"exec", events[k][2], events[k][3]>>

(***************************************************************************)
(* C30: askPermission of main.go grants exactly when the operator's        *)
(* answer, trimmed and lower-cased, is "y" or "yes"; an empty answer,      *)
(* which is also what readInput returns at the end of input, denies, as    *)
(* the "(y/N)" of the prompt says.                                         *)
(***************************************************************************)
C30_GrantsOnYesOnly ==
  \A k \in DOMAIN events :
    IsAsk(events[k]) =>
      /\ Granted(k) <=> Canonical(events[k][4]) \in {"y", "yes"}
      /\ events[k][4] = <<>> =>
           /\ ~Granted(k)
           /\ conversation[asstAt + DenialsUpTo(k) + ExecsUpTo(k)].content =
                <<"Permission denied for ", events[k][3]>>

\* " Yes " allowed the first invocation, the empty answer denied the second
C30_Witness ==
  /\ Len(events) = 3
  /\ IsAsk(events[1]) /\ events[1][4] = <<" ", "Y", "e", "s", " ">>
  /\ IsExec(events[2])
  /\ IsAsk(events[3]) /\ events[3][4] = <<>>
  /\ pc = "prompt"

\* every registered invocation of the current turn names a permission-free tool
AllInvokedExempt ==
  \A k \in 1..Len(Invocations) :
    IsRegistered(Invocations[k]) => ~RequiresPermission(tools, Invocations[k])

\* at least one Execute of the current round-trip returned, and each an error
EveryExecutionFailed ==
  /\ results # <<>>
  /\ \A r \in 1..Len(results) : ~results[r].ok

(***************************************************************************)
(* C32: an Execute that returns an error still counts as an executed tool: *)
(* when a round-trip is over in which every invoked tool is permission-    *)
(* free and every execution failed, processOneResponse has returned        *)
(* shouldContinue = true, each failure has left its "Error: " turn, and    *)
(* ProcessMessage has sent the next request unless the round-trip was the  *)
(* tenth of the user message.                                              *)
(***************************************************************************)
C32_FailedExecutionsStillContinue ==
  (RoundOver /\ AllInvokedExempt /\ EveryExecutionFailed) =>
    /\ shouldContinue
    /\ toolsExecuted = Len(results)
    /\ \A r \in 1..Len(results) :
         conversation[asstAt + r] = ToolTurn(<<"Error: ">> \o ToolError(results[r].name))
    /\ iteration < 10 => pc = "await" /\ ret = "none"

\* the only invocation of the first response failed, and the second request
\* is out with the "Error: " turn in it
C32_Witness ==
  /\ RoundOver /\ AllInvokedExempt /\ EveryExecutionFailed
  /\ pc = "await" /\ modelCalls = 2
  /\ request.messages[Len(request.messages)].role = "tool"

\* the events of the current round-trip that are prompts, or Execute calls,
\* for the invocation at position k
AsksAt(k) == {j \in 1..Len(events) : IsAsk(events[j]) /\ events[j][2] = k}
ExecsAt(k) == {j \in 1..Len(events) : IsExec(events[j]) /\ events[j][2] = k}

(***************************************************************************)
(* C33: a denied permission does not cut the round short: when the round-  *)
(* trip is over, every invocation of a registered tool that stands after a *)
(* denied one in the same assistant turn has been resolved after the       *)
(* denial: prompted for exactly once when its tool requires permission and *)
(* not at all otherwise, and executed exactly once when its tool is        *)
(* permission-free or its prompt was answered "y" or "yes".                *)
(***************************************************************************)
C33_DenialDoesNotCutTheRoundShort ==
  RoundOver =>
    \A d \in 1..Len(events) :
      IsDenial(events[d]) =>
        \A k \in (events[d][2] + 1)..Len(Invocations) :
          IsRegistered(Invocations[k]) =>
            LET guarded == RequiresPermission(tools, Invocations[k])
                allowed == \/ ~guarded
                           \/ \E j \in AsksAt(k) : events[j][4] \in Affirmative
            IN /\ Cardinality(AsksAt(k)) = (IF guarded THEN 1 ELSE 0)
               /\ Cardinality(ExecsAt(k)) = (IF allowed THEN 1 ELSE 0)
               /\ \A j \in AsksAt(k) \cup ExecsAt(k) :
                    j > d /\ events[j][3] = Invocations[k]

\* the first of two run_command invocations was denied, the second was
\* prompted for, granted and executed, and both left their turns
C33_Witness ==
  /\ RoundOver
  /\ Len(Invocations) = 2
  /\ Len(events) = 3
  /\ IsDenial(events[1]) /\ events[1][2] = 1
  /\ IsAsk(events[2]) /\ events[2][2] = 2 /\ events[2][4] \in Affirmative
  /\ IsExec(events[3]) /\ events[3][2] = 2
  /\ conversation[asstAt + 1] = ToolTurn(DeniedText(Invocations[1]))
  /\ conversation[asstAt + 2].role = "tool"

(***************************************************************************)
(* C35: when the first round-trip of a user message fails, its user turn   *)
(* stays in the conversation: ProcessMessage has returned the error with   *)
(* that turn as the last one, and the request of the next user message     *)
(* carries the conversation as it was, that turn included, followed        *)
(* directly by the new user turn.                                          *)
(***************************************************************************)
C35_FailedMessageStaysInConversation ==
  [][ (pc = "prompt" /\ lastCmd = "message" /\ failed /\ modelCalls = 1) =>
        /\ ret = "error"
        /\ conversation # <<>>
        /\ conversation[Len(conversation)] \in {UserTurn(m) : m \in Inputs \ {""}}
        /\ (pc' = "await" =>
              LET n == Len(request'.messages)
              IN /\ n = Len(conversation) + 1
                 /\ SubSeq(request'.messages, 1, n - 1) = conversation
                 /\ request'.messages[n - 1].role = "user"
                 /\ request'.messages[n] = UserTurn(input')) ]_vars

\* the request of a user message that follows one whose first round-trip
\* failed: its last two turns are user turns
C35_Witness ==
  /\ pc = "await" /\ modelCalls = 1
  /\ lastCmd = "message" /\ prevCmd = "message"
  /\ Len(request.messages) = 2
  /\ request.messages[1].role = "user"
  /\ request.messages[2].role = "user"

\* the turn at position i stands directly after the turn at position a and
\* tool-role turns only
FollowsThroughTools(a, i) ==
  a < i /\ \A j \in (a + 1)..i : conversation[j].role = "tool"

(***************************************************************************)
(* C34: in every reachable state the conversation is a sequence of groups, *)
(* each a user turn followed by any number of assistant turns with their   *)
(* tool-role turns: its first turn is a user turn, every tool-role turn    *)
(* is preceded, through tool-role turns only, by a turn                    *)
(* with the role assistant, and that turn has at least as many invocations *)
(* as tool-role turns directly after it.                                   *)
(***************************************************************************)
C34_ConversationShape ==
  /\ conversation # <<>> => conversation[1].role = "user"
  /\ \A i \in 1..Len(conversation) :
       conversation[i].role = "tool" =>
         \E a \in 1..Len(conversation) :
           /\ conversation[a].role = "assistant"
           /\ FollowsThroughTools(a, i)
           /\ i - a <= Len(conversation[a].tool_calls)

\* what the code keeps: the same shape with, in the place of the assistant
\* turn, the turn appended from a response, whatever role its fragments
\* gave it
ShapeOfAppendedTurns ==
  /\ conversation # <<>> => conversation[1].role = "user"
  /\ \A i \in 1..Len(conversation) :
       conversation[i].role = "tool" =>
         \E a \in 1..Len(conversation) :
           /\ conversation[a].role \notin {"user", "tool"}
           /\ FollowsThroughTools(a, i)
           /\ i - a <= Len(conversation[a].tool_calls)

(***************************************************************************)
(* The agent loop under the assumption that what it waits for returns:     *)
(* http.DefaultClient.Do, scanner.Scan, the readInput of askPermission and *)
(* tool.Execute are blocking calls of the one agent thread, which goes on  *)
(* as soon as they return.  Nothing is assumed about the "You: " prompt.   *)
(***************************************************************************)
FairSpec ==
  /\ Spec
  /\ WF_vars(RequestFails \/ ResponseArrives)
  /\ WF_vars(ScanLine \/ StreamEnds \/ StreamFails)
  /\ WF_vars(AnswerPermission)
  /\ WF_vars(ExecuteReturns)

\* ProcessMessage is running: the agent thread is inside a round-trip
InProcessMessage == pc \in {"await", "scan", "ask", "exec"}

(***************************************************************************)
(* C37: ProcessMessage always terminates: when every model call,           *)
(* permission prompt and tool execution eventually returns, an agent that  *)
(* is inside ProcessMessage eventually is back at the interactive prompt,  *)
(* having sent at least 1 and at most 10 requests for the user message.    *)
(***************************************************************************)
C37_ProcessMessageTerminates ==
  [](InProcessMessage =>
       <>(pc = "prompt" /\ lastCmd = "message" /\ ret # "none"
            /\ modelCalls >= 1 /\ modelCalls <= 10))

\* ProcessMessage has returned after its tenth request
C37_Witness ==
  pc = "prompt" /\ lastCmd = "message" /\ ret = "nil" /\ modelCalls = 10

\* the goroutines, running or about to be started, of period p
RoutinesOf(p) == {i \in DOMAIN routines : routines[i].period = p}
StartingFor(p) == {c \in Callers : callers[c].pc = "startGo" /\ callers[c].period = p}

\* the goroutines that still draw frames
Animating == {i \in DOMAIN routines : routines[i].st \in {"select", "frame"}}

\* the goroutines that have not returned
Alive == {i \in DOMAIN routines : routines[i].st # "exited"}

\* each period has at most one goroutine, at most one goroutine draws frames
\* at any time, and a goroutine leaves its loop on the send of the Stop that
\* ended its period
OneRoutinePerPeriod ==
  /\ \A p \in 1..periods : Cardinality(RoutinesOf(p)) + Cardinality(StartingFor(p)) <= 1
  /\ Cardinality(Animating) <= 1
  /\ \A i \in DOMAIN routines :
       /\ routines[i].period \in 1..periods
       /\ routines[i].st \in {"clear", "exited"} =>
            routines[i].stoppedBy = routines[i].period

LingersIntoNextPeriod ==
  this.active /\ Cardinality(Alive) = 2 /\ Cardinality(Animating) = 1

\* the agent of revision r has read its last input and is back at the prompt,
\* or has left main's loop
Finished(r) ==
  \/ agents[r].pc = "exited"
  \/ agents[r].pc = "prompt" /\ agents[r].inputs = MaxInputs

\* the tools revision r has executed, in order
ExecutedBy(r) ==
  SelectSeq(agents[r].log, LAMBDA e : e[1] = "exec")

\* the prompt logged at position k of revision r's log was granted: Execute
\* follows for its invocation
GrantedIn(r, k) ==
  /\ k < Len(agents[r].log)
  /\ agents[r].log[k + 1] = <<"exec", agents[r].log[k][2]>>

\* the positions of revision r's log that are prompts
AsksOf(r) == {k \in 1..Len(agents[r].log) : agents[r].log[k][1] = "ask"}

(***************************************************************************)
(* C31: in the spinner revision askPermission grants exactly when the      *)
(* answer, trimmed and lower-cased, is empty, "y" or "yes": every prompt   *)
(* of that revision is for a tool that requires permission, and Execute    *)
(* follows it exactly when the answer is one of these, an empty line and   *)
(* the "" of a closed standard input included.                             *)
(***************************************************************************)
C31_SpinnerRevisionGrantsOnEmpty ==
  \A k \in AsksOf("spinner") :
    LET e == agents["spinner"].log[k]
    IN /\ e[2] \in DOMAIN SpinnerRevisionTools
       /\ SpinnerRevisionTools[e[2]]
       /\ GrantedIn("spinner", k) <=> Canonical(e[3]) \in {"", "y", "yes"}

\* the spinner revision has read past the end of the operator's answers, got
\* "" from the closed input at the prompt for execute_python, and is
\* executing it
C31_Witness ==
  LET a == agents["spinner"]
  IN /\ a.pc = "exec"
     /\ a.answers > MaxAnswers
     /\ Len(operatorAnswers) = MaxAnswers
     /\ Len(a.log) >= 2
     /\ a.log[Len(a.log) - 1] = <<"ask", "execute_python", <<>>>>
     /\ a.log[Len(a.log)] = <<"exec", "execute_python">>

\* no prompt of either revision was answered with an empty line
NoEmptyAnswer ==
  \A r \in Revisions : \A k \in AsksOf(r) : Canonical(agents[r].log[k][3]) # ""

\* both revisions register the tool name with the same RequiresPermission,
\* or neither registers it
SameInBoth(name) ==
  /\ name \in DOMAIN RegisteredTools <=> name \in DOMAIN SpinnerRevisionTools
  /\ name \in DOMAIN RegisteredTools =>
       RegisteredTools[name] = SpinnerRevisionTools[name]

\* the responses so far invoke only tools that are the same in both revisions
SharedToolsOnly ==
  \A k \in 1..Len(modelResponses) :
    \A i \in 1..Len(modelResponses[k].fm.tool_calls) :
      SameInBoth(modelResponses[k].fm.tool_calls[i])

\* the two revisions made the same number of model calls, executed the same
\* tools in the same order and hold the same conversation
RevisionsAgree ==
  /\ agents["main"].modelCalls = agents["spinner"].modelCalls
  /\ ExecutedBy("main") = ExecutedBy("spinner")
  /\ agents["main"].conversation = agents["spinner"].conversation

(***************************************************************************)
(* C36, as claimed: for the same user inputs, model responses, tool        *)
(* results and operator answers, none of the answers empty, the two        *)
(* revisions, once both have handled the inputs, have issued the same      *)
(* number of model calls, executed the same tools in the same order and    *)
(* hold identical conversations.                                           *)
(***************************************************************************)
C36_RevisionsAgreeUnlessEmptyAnswer ==
  (Finished("main") /\ Finished("spinner") /\ NoEmptyAnswer) => RevisionsAgree

(***************************************************************************)
(* C36, amended: the same holds when, in addition, every tool name the     *)
(* responses invoke is registered in both revisions with the same          *)
(* RequiresPermission, or in neither.                                      *)
(***************************************************************************)
C36_RevisionsAgreeOnSharedTools ==
  (Finished("main") /\ Finished("spinner") /\ NoEmptyAnswer /\ SharedToolsOnly)
    => RevisionsAgree

\* both revisions have handled two user messages: read_file executed and
\* answered by a second response, write_file prompted for with an answer
\* that is not empty
C36_Witness ==
  /\ Finished("main") /\ Finished("spinner")
  /\ NoEmptyAnswer /\ SharedToolsOnly
  /\ agents["spinner"].modelCalls = 3
  /\ Len(ExecutedBy("spinner")) >= 1
  /\ AsksOf("spinner") # {}
  /\ AsksOf("main") # {}
  /\ Len(agents["main"].conversation) >= 5

====
